---- MODULE Spec2Model ----
(***************************************************************************)
(* Slide change tracking of the HackUMass slide server.                    *)
(*                                                                         *)
(*   server/routers/slides.py   process_slide, compare_slides,             *)
(*                              ask_question and their helpers             *)
(*   server/storage/manager.py  last_slide.* files and slides_log.json     *)
(*   server/core/gemini.py      summarize_slide (external summarizer)      *)
(*   server/core/clip_utils.py  cosine_np, is_new_slide                    *)
(*   server/core/detect_change.py  evaluate_change and its metrics         *)
(*   server/core/cv_detect.py   order_points, the padded crop, detection   *)
(*                                                                         *)
(* Representation.                                                         *)
(*   Optional[T]   <<>> is None, <<x>> is the value x.                     *)
(*   str           a sequence of character codes: SPACE is whitespace,     *)
(*                 1..10 are the letters a..j, 11..19 the letters A..I,    *)
(*                 20..35 the letters k..z and 36 is the underscore; ord   *)
(*                 gives their code points.                                *)
(*   np.ndarray    (embedding) a float32 vector as the tuple of its        *)
(*                 components in units of 1/UNIT, UNIT a power of two: an  *)
(*                 L2-normalized vector has squared length UNIT^2.         *)
(*   ImageHash     the set of positions of its 1-bits.                     *)
(*   float         similarities of slides.py are kept in hundredths,       *)
(*                 rounded down: x < 0.60 iff floor(100 x) < 60, so every  *)
(*                 threshold test of the code is decided exactly.  A       *)
(*                 cosine is computed in float32 with the roundings of     *)
(*                 each step (float32_sqrt, float32_mul, float32_div).     *)
(*                 Metrics of detect_change.py are exact fractions         *)
(*                 <<numerator, denominator>>.                             *)
(*   point, quad   <<x, y>> in pixels, y downwards; four points.           *)
(*   image region  the pixels of a frame (img) and the box <<x1, y1, x2,   *)
(*                 y2>> of the slice frame[y1:y2, x1:x2].                  *)
(***************************************************************************)
EXTENDS Integers, Sequences, FiniteSets, Bags, TLC

VARIABLES
    mem,        \* slides.py:108-110  _previous_text, _previous_clip_vec, _state_initialized
    disk,       \* manager.py:12-15   last_slide_text.txt, _clip.npy, .json, _img.jpg
    log,        \* manager.py:16      slides_log.json
    inflight,   \* bag of process_slide coroutines suspended at `await image.read()`
    comparing,  \* bag of compare_slides coroutines suspended at an `await imageN.read()`
    arrived,    \* number of requests received so far
    faults,     \* number of failures, restarts and history resets so far
    trace,      \* what the latest finished requests did and returned, oldest first
    last_save,  \* arguments of the latest save_last_state call
    _conversation_memory,  \* slides.py:111  the question/answer turns kept
    probe       \* the call of a function on its own, with arguments and result

vars == <<mem, disk, log, inflight, comparing, arrived, faults, trace, last_save,
          _conversation_memory, probe>>

----------------------------------------------------------------------------
(* Optional values *)

None == <<>>
Some(x) == <<x>>
IsNone(o) == o = <<>>
Val(o) == o[1]

MinOf(S) == CHOOSE a \in S : \A b \in S : a <= b
MaxOf(S) == CHOOSE a \in S : \A b \in S : a >= b
Max2(a, b) == IF a >= b THEN a ELSE b
Min2(a, b) == IF a <= b THEN a ELSE b
Abs(a) == IF a >= 0 THEN a ELSE -a

----------------------------------------------------------------------------
(* Strings *)

SPACE == 0

\* str.split(): the maximal runs of non-whitespace characters, in order.
WordStarts(s) == {i \in 1..Len(s) : s[i] # SPACE /\ (i = 1 \/ s[i - 1] = SPACE)}
WordEnd(s, i) == MinOf({j \in i..Len(s) : j = Len(s) \/ s[j + 1] = SPACE})
split(s) ==
    LET starts == WordStarts(s)
    IN  [k \in 1..Cardinality(starts) |->
            LET i == CHOOSE x \in starts : Cardinality({y \in starts : y < x}) = k - 1
            IN  SubSeq(s, i, WordEnd(s, i))]

\* str.strip(): without the leading and the trailing whitespace.
RECURSIVE lstrip(_)
lstrip(s) == IF s # <<>> /\ Head(s) = SPACE THEN lstrip(Tail(s)) ELSE s
RECURSIVE rstrip(_)
rstrip(s) ==
    IF s # <<>> /\ s[Len(s)] = SPACE THEN rstrip(SubSeq(s, 1, Len(s) - 1)) ELSE s
strip(s) == rstrip(lstrip(s))

\* The characters: 1..10 are 'a'..'j', 11..19 are 'A'..'I', 20..35 are
\* 'k'..'z' and UNDERSCORE is '_'.
UNDERSCORE == 36

\* ord(c): the code point of a character; " " is 32, '_' is 95, the
\* upper-case letters are 'A'.. (65..) and the lower-case letters 'a'..
\* (97..).
ord(c) ==
    IF c = SPACE THEN 32
    ELSE IF c = UNDERSCORE THEN 95
    ELSE IF c >= 20 THEN 87 + c
    ELSE IF c >= 11 THEN 54 + c
    ELSE 96 + c

\* a <= b in the order Python uses to sort strings: lexicographic by code
\* point, so every upper-case letter sorts before every lower-case one.
RECURSIVE LexLeq(_, _)
LexLeq(a, b) ==
    IF a = <<>> THEN TRUE
    ELSE IF b = <<>> THEN FALSE
    ELSE IF ord(Head(a)) < ord(Head(b)) THEN TRUE
    ELSE IF ord(Head(a)) > ord(Head(b)) THEN FALSE
    ELSE LexLeq(Tail(a), Tail(b))

RECURSIVE Insert(_, _)
Insert(w, ws) ==
    IF ws = <<>> THEN <<w>>
    ELSE IF LexLeq(w, Head(ws)) THEN <<w>> \o ws
    ELSE <<Head(ws)>> \o Insert(w, Tail(ws))

RECURSIVE sorted(_)
sorted(ws) == IF ws = <<>> THEN <<>> ELSE Insert(Head(ws), sorted(Tail(ws)))

\* " ".join(ws)
RECURSIVE join(_)
join(ws) ==
    IF ws = <<>> THEN <<>>
    ELSE IF Len(ws) = 1 THEN Head(ws)
    ELSE Head(ws) \o <<SPACE>> \o join(Tail(ws))

\* Length of a longest common subsequence of a[i..] and b[j..].
RECURSIVE LCSFrom(_, _, _, _)
LCSFrom(a, b, i, j) ==
    IF i > Len(a) \/ j > Len(b) THEN 0
    ELSE IF a[i] = b[j] THEN 1 + LCSFrom(a, b, i + 1, j + 1)
    ELSE Max2(LCSFrom(a, b, i + 1, j), LCSFrom(a, b, i, j + 1))

LCS(a, b) == LCSFrom(a, b, 1, 1)

\* rapidfuzz.fuzz.ratio: 100 * (1 - indel_distance / (len1 + len2)), where the
\* indel distance is len1 + len2 - 2 * LCS; two empty strings score 100.
\* In hundredths of the [0, 1] similarity, rounded down.
fuzz_ratio(s1, s2) ==
    IF Len(s1) + Len(s2) = 0 THEN 100
    ELSE (200 * LCS(s1, s2)) \div (Len(s1) + Len(s2))

\* rapidfuzz.fuzz.token_sort_ratio(s1, s2) as slides.py calls it, without a
\* processor (rapidfuzz 3: processor=None, the strings are compared as they
\* are, upper case differs from lower case): the ratio of the two strings
\* after their whitespace-separated tokens are sorted and joined by single
\* spaces.
token_sort_ratio(s1, s2) ==
    fuzz_ratio(join(sorted(split(s1))), join(sorted(split(s2))))

----------------------------------------------------------------------------
(* Embeddings *)

RECURSIVE Dot(_, _)
Dot(v1, v2) ==
    IF v1 = <<>> THEN 0 ELSE Head(v1) * Head(v2) + Dot(Tail(v1), Tail(v2))

\* The greatest k in lo..hi with k * k * n <= x (lo is one such k).
RECURSIVE FloorRoot(_, _, _, _)
FloorRoot(lo, hi, n, x) ==
    IF lo >= hi THEN lo
    ELSE LET mid == (lo + hi + 1) \div 2
         IN  IF mid * mid * n <= x
             THEN FloorRoot(mid, hi, n, x)
             ELSE FloorRoot(lo, mid - 1, n, x)

\* float32 arithmetic.  A positive float32 is <<sig, e>>, the number
\* sig * 2^e with a significand of 24 bits, TWO23 <= sig < TWO24.  Every
\* operation returns the float32 nearest to the exact result, ties to the
\* even significand (IEEE 754), which is what NumPy computes.
TWO23 == 8388608
TWO24 == 16777216

RECURSIVE Pow2(_)
Pow2(k) == IF k = 0 THEN 1 ELSE 2 * Pow2(k - 1)

\* Rounding: q is the exact result cut to 25 bits (q * 2^e, TWO24 <= q),
\* sticky tells whether bits were cut off behind them.
float32_round(q, e, sticky) ==
    LET sig == q \div 2
        up == q % 2 = 1 /\ (sticky \/ sig % 2 = 1)
    IN  IF ~up THEN <<sig, e + 1>>
        ELSE IF sig + 1 = TWO24 THEN <<TWO23, e + 2>>
        ELSE <<sig + 1, e + 1>>

\* The square root bit by bit: root is the integer part of sqrt(n * 4^j)
\* and rem what is left, n * 4^j - root * root.
RECURSIVE SqrtBits(_, _, _)
SqrtBits(root, rem, j) ==
    IF root >= TWO24 THEN <<root, rem, j>>
    ELSE IF 4 * rem >= 4 * root + 1
         THEN SqrtBits(2 * root + 1, 4 * rem - (4 * root + 1), j + 1)
         ELSE SqrtBits(2 * root, 4 * rem, j + 1)

\* np.sqrt of the float32 n, an integer 0 < n < 2^24.
float32_sqrt(n) ==
    LET r == FloorRoot(0, 4095, 1, n)
        s == SqrtBits(r, n - r * r, 0)
    IN  float32_round(s[1], -s[3], s[2] # 0)

\* x * y: the 48-bit product of the significands from their 12-bit halves.
float32_mul(x, y) ==
    LET a1 == x[1] \div 4096
        a0 == x[1] % 4096
        b1 == y[1] \div 4096
        b0 == y[1] % 4096
        mid == a1 * b0 + a0 * b1
        low == (mid % 4096) * 4096 + a0 * b0
        high == a1 * b1 + mid \div 4096 + low \div TWO24
        rest == low % TWO24
        e == x[2] + y[2]
    IN  IF high >= TWO23
        THEN float32_round(2 * high + rest \div TWO23, e + 23, rest % TWO23 # 0)
        ELSE float32_round(4 * high + rest \div 4194304, e + 22, rest % 4194304 # 0)

\* The integer d > 0 shifted into the range of a significand.
RECURSIVE Normalized(_, _)
Normalized(d, t) == IF d >= TWO23 THEN <<d, t>> ELSE Normalized(2 * d, t + 1)

\* Long division: q holds the first `steps` bits of D / sig, rem is twice
\* the remainder.
RECURSIVE DivBits(_, _, _, _)
DivBits(q, rem, sig, steps) ==
    IF q >= TWO24 THEN <<q, rem, steps>>
    ELSE IF rem >= sig
         THEN DivBits(2 * q + 1, 2 * (rem - sig), sig, steps + 1)
         ELSE DivBits(2 * q, 2 * rem, sig, steps + 1)

\* d / y for the float32 d, an integer 0 < d < 2^24, and the float32 y.
float32_div(d, y) ==
    LET n == Normalized(d, 0)
        s == DivBits(0, n[1], y[1], 0)
    IN  float32_round(s[1], 1 - s[3] - n[2] - y[2], s[2] # 0)

\* floor(100 * x) and floor(-100 * x) for a float32 0 < x < 1.
floor_float32(x) ==
    IF -x[2] > 30 THEN 0 ELSE (100 * x[1]) \div Pow2(-x[2])
floor_float32_neg(x) ==
    IF -x[2] > 30 THEN -1
    ELSE -(floor_float32(x) + (IF (100 * x[1]) % Pow2(-x[2]) = 0 THEN 0 ELSE 1))

\* |v1| * |v2| of cosine_np: each norm is the float32 square root of the
\* float32 sum of squares (np.linalg.norm), their product a float32.  The
\* components are small integers in units of a power of two, so the sums
\* of products are exact in float32 whatever the order of accumulation.
norm_product(vec1, vec2) ==
    float32_mul(float32_sqrt(Dot(vec1, vec1)), float32_sqrt(Dot(vec2, vec2)))

\* cosine_np: float(np.clip(np.dot(v1, v2) / (|v1| * |v2| + 1e-12), -1, 1))
\* on float32 vectors, in hundredths, rounded down.  With NumPy 2 the quotient
\* is a float32: 1e-12 is converted to float32 and is then below half a unit
\* in the last place of the denominator, which stays as it is, and the
\* quotient is rounded to float32 (0.88 comes out as 0.87999999523..., 0.40
\* as 0.40000000596..., and a vector of norm sqrt(245) has cosine
\* 0.99999994... with itself).  A zero vector has the denominator 1e-12 and
\* the dot product 0.
cosine_np_float32(vec1, vec2) ==
    LET d == Dot(vec1, vec2)
    IN  IF d = 0 THEN 0
        ELSE LET q == float32_div(Abs(d), norm_product(vec1, vec2))
             IN  IF q[2] >= -23 THEN (IF d > 0 THEN 100 ELSE -100)
                 ELSE IF d > 0 THEN floor_float32(q) ELSE floor_float32_neg(q)

\* Embeddings.  E1, E2, E3 are L2-normalized (squared length UNIT^2), as
\* embed_image returns them: cosine(E1, E2) = 243/256 = 0.949...,
\* cosine(E1, E3) = 103/256 = 0.402..., cosine(E2, E3) = 169/256 = 0.660...
\* E4, E5 and E6 are not normalized, which cosine_np allows for: E4 and E5
\* have the cosine 352/400 = 0.88, the threshold, which comes out as the
\* float32 0.87999999523...; the norm of E6 is sqrt(245)/UNIT, whose float32
\* is not exact, and cosine_np(E6, E6) is 0.99999994...
E1 == <<15, 5, 2, 1, 1>>
E2 == <<13, 7, 3, 5, 2>>
E3 == <<2, 11, 3, 11, 1>>
E4 == <<2, 2, 14, 14, 0>>
E5 == <<2, 6, 18, 6, 0>>
E6 == <<7, 7, 7, 7, 7>>
Embeds == {E1, E2, E3, E4, E5, E6}

\* cosine_np of each pair of these embeddings, computed once:
\* <<vec1, vec2, cosine>>.
Cosines == {<<vec1, vec2, cosine_np_float32(vec1, vec2)>> : vec1 \in Embeds, vec2 \in Embeds}

\* cosine_np, in hundredths, rounded down.
cosine_np(vec1, vec2) ==
    IF vec1 \in Embeds /\ vec2 \in Embeds
    THEN (CHOOSE known \in Cosines : known[1] = vec1 /\ known[2] = vec2)[3]
    ELSE cosine_np_float32(vec1, vec2)

\* The bits of (100 * d) / y before the binary point: <<quotient, remainder>>
\* of 100 * d * 2^k by sig.
RECURSIVE QuotBits(_, _, _, _)
QuotBits(q, rem, sig, k) ==
    IF k = 0 THEN <<q, rem>>
    ELSE IF 2 * rem >= sig
         THEN QuotBits(2 * q + 1, 2 * rem - sig, sig, k - 1)
         ELSE QuotBits(2 * q, 2 * rem, sig, k - 1)

\* cosine_np under NumPy 1.x, where `float32 + 1e-12` is a float64 and so
\* is the quotient: the result is the exact quotient d / (|v1| * |v2|) made
\* smaller in magnitude by one part in 10^12, so an exact k/100 comes out
\* just below k/100 (1.0 as 0.999999999999).
cosine_np_float64(vec1, vec2) ==
    LET d == Dot(vec1, vec2)
    IN  IF d = 0 THEN 0
        ELSE LET y == norm_product(vec1, vec2)
                 s == QuotBits((100 * Abs(d)) \div y[1], (100 * Abs(d)) % y[1],
                               y[1], -y[2])
                 k == IF s[2] = 0 THEN s[1] - 1 ELSE s[1]
             IN  IF k >= 100 THEN (IF d > 0 THEN 100 ELSE -100)
                 ELSE IF d > 0 THEN k ELSE -(k + 1)

----------------------------------------------------------------------------
(* server/core/detect_change.py *)

RATIO_THRESHOLD == 85
TOKEN_THRESHOLD == 20

\* str.lower() on one character and on a string.
lower_char(c) == IF c \in 11..19 THEN c - 10 ELSE c
lower(s) == [i \in 1..Len(s) |-> lower_char(s[i])]

\* Number of occurrences of w in the token list ws.
RECURSIVE Count(_, _)
Count(w, ws) ==
    IF ws = <<>> THEN 0
    ELSE (IF Head(ws) = w THEN 1 ELSE 0) + Count(w, Tail(ws))

\* _tokenize: Counter(WORD_REGEX.findall(text.lower())).  Over letters and
\* spaces the regex matches the maximal runs of letters.
_tokenize(text) ==
    LET ws == split(lower(text))
    IN  [w \in {ws[i] : i \in 1..Len(ws)} |-> Count(w, ws)]

CounterGet(c, w) == IF w \in DOMAIN c THEN c[w] ELSE 0

RECURSIVE SumOver(_, _, _)
SumOver(S, f(_), acc) ==
    IF S = {} THEN acc
    ELSE LET x == CHOOSE y \in S : TRUE
         IN  SumOver(S \ {x}, f, acc + f(x))

\* C23 variant: the total counts the smaller of the two counts of a token.
token_delta_ratio_min_total(previous, current) ==
    IF previous = <<>> /\ current = <<>> THEN <<0, 1>>
    ELSE LET prev_tokens == _tokenize(previous)
             curr_tokens == _tokenize(current)
             all_tokens == DOMAIN prev_tokens \cup DOMAIN curr_tokens
             mn(t) == CounterGet(prev_tokens, t) + CounterGet(curr_tokens, t)
                      - Max2(CounterGet(prev_tokens, t), CounterGet(curr_tokens, t))
             df(t) == Abs(CounterGet(prev_tokens, t) - CounterGet(curr_tokens, t))
             total == SumOver(all_tokens, mn, 0)
             diff == SumOver(all_tokens, df, 0)
         IN  IF total = 0 THEN <<0, 1>> ELSE <<diff, total>>

\* token_delta_ratio, as the fraction <<diff, total>> (0.0 is <<0, 1>>).
token_delta_ratio(previous, current) ==
    IF previous = <<>> /\ current = <<>> THEN <<0, 1>>
    ELSE LET prev_tokens == _tokenize(previous)
             curr_tokens == _tokenize(current)
             all_tokens == DOMAIN prev_tokens \cup DOMAIN curr_tokens
             mx(t) == Max2(CounterGet(prev_tokens, t), CounterGet(curr_tokens, t))
             df(t) == Abs(CounterGet(prev_tokens, t) - CounterGet(curr_tokens, t))
             total == SumOver(all_tokens, mx, 0)
             diff == SumOver(all_tokens, df, 0)
         IN  IF total = 0 THEN <<0, 1>> ELSE <<diff, total>>

\* Length of the common prefix of a[i..] and b[j..].
MatchLen(a, b, i, j) ==
    LET n == Min2(Len(a) - i + 1, Len(b) - j + 1)
    IN  IF n <= 0 THEN 0
        ELSE MinOf({t \in 0..(n - 1) : a[i + t] # b[j + t]} \cup {n})

\* SequenceMatcher.__chain_b with autojunk=True (the default; isjunk is
\* None): when b has 200 or more elements, the elements that occur more
\* than len(b) // 100 + 1 times are popular and are left out of b2j.
CountIn(c, s) == Cardinality({i \in 1..Len(s) : s[i] = c})
bpopular(b) ==
    IF Len(b) >= 200
    THEN {c \in {b[i] : i \in 1..Len(b)} : CountIn(c, b) > Len(b) \div 100 + 1}
    ELSE {}

\* Length of the run of equal elements of a[i..] and b[j..] that b2j holds.
RECURSIVE RunLen(_, _, _, _, _)
RunLen(a, b, popular, i, j) ==
    IF i > Len(a) \/ j > Len(b) \/ a[i] # b[j] \/ b[j] \in popular THEN 0
    ELSE 1 + RunLen(a, b, popular, i + 1, j + 1)

\* Length of the run of equal elements that ends just before a[i], b[j].
BackLen(a, b, i, j) ==
    LET n == Min2(i - 1, j - 1)
    IN  IF n <= 0 THEN 0
        ELSE MinOf({t \in 0..(n - 1) : a[i - 1 - t] # b[j - 1 - t]} \cup {n})

\* The main loop of find_longest_match (`if k > bestsize`): the longest run
\* over b2j, the one earliest in a, and of those earliest in b; <<1, 1, 0>>
\* when there is none.
BestRun(a, b, popular) ==
    LET b2j == {p \in (1..Len(a)) \X (1..Len(b)) :
                   a[p[1]] = b[p[2]] /\ b[p[2]] \notin popular}
        runs == {<<p[1], p[2], RunLen(a, b, popular, p[1], p[2])>> : p \in b2j}
        size == MaxOf({r[3] : r \in runs} \cup {0})
        i == MinOf({r[1] : r \in {q \in runs : q[3] = size}})
        j == MinOf({r[2] : r \in {q \in runs : q[3] = size /\ q[1] = i}})
    IN  IF size = 0 THEN <<1, 1, 0>> ELSE <<i, j, size>>

\* The two extension loops: the block grows to the left and to the right
\* over equal elements, popular ones included.
Extended(m, back, forward) == <<m[1] - back, m[2] - back, m[3] + back + forward>>

\* SequenceMatcher.find_longest_match over the whole of a and b, <<i, j,
\* size>> with positions counted from 1; popular is bpopular of the b the
\* matcher was built with.
find_longest_match(a, b, popular) ==
    LET m == BestRun(a, b, popular)
    IN  Extended(m, BackLen(a, b, m[1], m[2]),
                 MatchLen(a, b, m[1] + m[3], m[2] + m[3]))

\* Sum of the sizes of SequenceMatcher.get_matching_blocks(): the longest
\* block, then recursively the pieces to its left and to its right.
RECURSIVE Matches(_, _, _)
Matches(a, b, popular) ==
    LET m == find_longest_match(a, b, popular)
    IN  IF m[3] = 0 THEN 0
        ELSE m[3]
             + Matches(SubSeq(a, 1, m[1] - 1), SubSeq(b, 1, m[2] - 1), popular)
             + Matches(SubSeq(a, m[1] + m[3], Len(a)),
                       SubSeq(b, m[2] + m[3], Len(b)), popular)

\* SequenceMatcher(None, a, b).ratio() = 2.0 * matches / (len(a) + len(b)),
\* and 1.0 when both are empty; as a fraction.
sequence_ratio(a, b) ==
    IF Len(a) + Len(b) = 0 THEN <<1, 1>>
    ELSE <<2 * Matches(a, b, bpopular(b)), Len(a) + Len(b)>>

similarity_scores(previous, current) ==
    <<sequence_ratio(previous, current), token_delta_ratio(previous, current)>>

\* q < pct/100 and q > pct/100 for a fraction q = <<num, den>>, den > 0.
FracLt(q, pct) == 100 * q[1] < pct * q[2]
FracGt(q, pct) == 100 * q[1] > pct * q[2]

\* C3 mutant: a missing previous text is compared as the empty string.
evaluate_change_unguarded(previous, current) ==
    LET sc == similarity_scores(IF IsNone(previous) THEN <<>> ELSE Val(previous), current)
    IN  [changed |-> FracLt(sc[1], RATIO_THRESHOLD) \/ FracGt(sc[2], TOKEN_THRESHOLD),
         seq_similarity |-> sc[1],
         token_change |-> sc[2]]

\* C25 variant: both criteria must fail for a change.
evaluate_change_conjunctive(previous, current) ==
    IF IsNone(previous) \/ Val(previous) = <<>>
    THEN [changed |-> TRUE, seq_similarity |-> <<0, 1>>, token_change |-> <<1, 1>>]
    ELSE LET sc == similarity_scores(Val(previous), current)
         IN  [changed |-> FracLt(sc[1], RATIO_THRESHOLD) /\ FracGt(sc[2], TOKEN_THRESHOLD),
              seq_similarity |-> sc[1],
              token_change |-> sc[2]]

\* evaluate_change(previous, current) with the default thresholds; previous
\* is Optional: `not previous` holds for None and for the empty string.
evaluate_change(previous, current) ==
    IF IsNone(previous) \/ Val(previous) = <<>>
    THEN [changed |-> TRUE, seq_similarity |-> <<0, 1>>, token_change |-> <<1, 1>>]
    ELSE LET sc == similarity_scores(Val(previous), current)
         IN  [changed |-> FracLt(sc[1], RATIO_THRESHOLD) \/ FracGt(sc[2], TOKEN_THRESHOLD),
              seq_similarity |-> sc[1],
              token_change |-> sc[2]]

is_slide_changed(previous, current) == evaluate_change(previous, current).changed

----------------------------------------------------------------------------
(* server/core/clip_utils.py: is_new_slide *)

UNIT == 16
CLIP_THRESH == 92
PHASH_MAX_DIST == 10

\* cosine_sim: torch.matmul(vec1, vec2.T).item(), the plain dot product of
\* two [1, D] float32 tensors (the vectors are not normalized again); in
\* hundredths, rounded down.  The components are multiples of 1/UNIT, so
\* the products and their sums are exact in float32 in every order of
\* accumulation and the result is Dot / UNIT^2.
cosine_sim(vec1, vec2) ==
    LET d == 100 * Dot(vec1, vec2)
        u == UNIT * UNIT
    IN  IF d >= 0 THEN d \div u ELSE -((-d + u - 1) \div u)

\* ImageHash.__sub__: the Hamming distance.
phash_sub(h1, h2) == Cardinality((h1 \ h2) \cup (h2 \ h1))

is_new_slide(current_vec, current_phash, previous_vec, previous_phash) ==
    IF IsNone(previous_vec) \/ IsNone(previous_phash)
    THEN [is_new |-> TRUE, cosine_similarity |-> Some(0), phash_distance |-> None]
    ELSE LET cosine == cosine_sim(current_vec, Val(previous_vec))
             phash_distance == phash_sub(Val(previous_phash), current_phash)
             clip_change == cosine < CLIP_THRESH
             phash_change == phash_distance > PHASH_MAX_DIST
         IN  [is_new |-> clip_change \/ phash_change,
              cosine_similarity |-> Some(cosine),
              phash_distance |-> Some(phash_distance)]

----------------------------------------------------------------------------
(* server/core/cv_detect.py.  A point is <<x, y>> in pixels, a quad a
   sequence of four points, a region of a frame the box <<x1, y1, x2, y2>>
   of the slice frame[y1:y2, x1:x2]. *)

EXTRA_PAD == 30

\* np.argmin, np.argmax: the first index of the least, greatest value.
argmin(v) ==
    CHOOSE i \in 1..Len(v) :
        /\ \A j \in 1..Len(v) : v[i] <= v[j]
        /\ \A j \in 1..(i - 1) : v[j] > v[i]
argmax(v) ==
    CHOOSE i \in 1..Len(v) :
        /\ \A j \in 1..Len(v) : v[i] >= v[j]
        /\ \A j \in 1..(i - 1) : v[j] < v[i]

\* C20 variant: the difference taken as x - y.
order_points_x_minus_y(pts) ==
    LET s == [i \in 1..Len(pts) |-> pts[i][1] + pts[i][2]]
        diff == [i \in 1..Len(pts) |-> pts[i][1] - pts[i][2]]
    IN  <<pts[argmin(s)], pts[argmin(diff)], pts[argmax(s)], pts[argmax(diff)]>>

\* order_points: rect[0..3] = top-left, top-right, bottom-right, bottom-left.
\* pts.sum(axis=1) is x + y and np.diff(pts, axis=1) is y - x.
order_points(pts) ==
    LET s == [i \in 1..Len(pts) |-> pts[i][1] + pts[i][2]]
        diff == [i \in 1..Len(pts) |-> pts[i][2] - pts[i][1]]
    IN  <<pts[argmin(s)], pts[argmin(diff)], pts[argmax(s)], pts[argmax(diff)]>>

\* Truncation towards zero of n / d for d > 0, as int() of a float.
TruncDiv(n, d) == IF n >= 0 THEN n \div d ELSE -((-n) \div d)

\* Sum of f(contour, i) over the edges i..Len(contour) of a closed contour.
RECURSIVE EdgeSum(_, _, _)
EdgeSum(f(_, _), contour, i) ==
    IF i > Len(contour) THEN 0 ELSE f(contour, i) + EdgeSum(f, contour, i + 1)

\* The terms of Green's formula for the edge from point i to the next one.
NextPoint(contour, i) == contour[(i % Len(contour)) + 1]
Edge00(contour, i) ==
    contour[i][1] * NextPoint(contour, i)[2] - NextPoint(contour, i)[1] * contour[i][2]
Edge10(contour, i) == Edge00(contour, i) * (contour[i][1] + NextPoint(contour, i)[1])
Edge01(contour, i) == Edge00(contour, i) * (contour[i][2] + NextPoint(contour, i)[2])

\* OpenCV gives the moments the sign that makes m00 positive.
SignedMoments(sgn, a00, a10, a01) ==
    [a00 |-> sgn * a00, a10 |-> sgn * a10, a01 |-> sgn * a01]

\* cv2.moments of a closed contour, by Green's formula over its edges:
\* a00 is twice the area, a10 and a01 six times the first moments.  For a
\* contour without area (fabs(a00) <= FLT_EPSILON) every moment stays 0.
moments(contour) ==
    IF EdgeSum(Edge00, contour, 1) = 0 THEN [a00 |-> 0, a10 |-> 0, a01 |-> 0]
    ELSE SignedMoments(IF EdgeSum(Edge00, contour, 1) < 0 THEN -1 ELSE 1,
                       EdgeSum(Edge00, contour, 1),
                       EdgeSum(Edge10, contour, 1),
                       EdgeSum(Edge01, contour, 1))

\* The centroid for given moments: None when m00 = 0, else
\* (int(m10 / m00), int(m01 / m00)) with m00 = a00 / 2, m10 = a10 / 6,
\* m01 = a01 / 6.
CentroidOf(m) ==
    IF m.a00 = 0 THEN None
    ELSE Some(<<TruncDiv(m.a10, 3 * m.a00), TruncDiv(m.a01, 3 * m.a00)>>)

_get_centroid(contour) == CentroidOf(moments(contour))

\* Twice cv2.contourArea, which is half of |a00|.
contourArea2(contour) == moments(contour).a00

\* np.hypot(dx, dy) of two integers is the C library's hypot on doubles.
\* Where the root of dx^2 + dy^2 is an integer the result is exact;
\* elsewhere it is the double nearest to the root or a neighbour of it,
\* which one depends on the library (glibc without fused multiply-add
\* returns 54.70831746635972 for (17, 52) and 54.708317466359716 for
\* (28, 47), both the root of 2993; with fused multiply-add it returns the
\* nearest double for both).  libm gives this position, -1, 0 or 1, for the
\* magnitudes <<smaller, larger>> of the arguments it rounds off the nearest
\* double.  The result is kept as <<dx^2 + dy^2, position>>.
hypot(libm, dx, dy) ==
    LET n == dx * dx + dy * dy
        r == FloorRoot(0, 4095, 1, n)
        key == <<Min2(Abs(dx), Abs(dy)), Max2(Abs(dx), Abs(dy))>>
    IN  <<n, IF r * r # n /\ key \in DOMAIN libm THEN libm[key] ELSE 0>>

\* x < y for two results of np.hypot.
hypot_less(x, y) == x[1] < y[1] \/ (x[1] = y[1] /\ x[2] < y[2])

\* One round of the loop of find_screen: acc holds min_dist (None for
\* float("inf")) and best_candidate so far, c is the centroid of the
\* candidate.  A candidate without a centroid is skipped, one whose distance
\* from the centroid `last` of the previous quad is less than min_dist
\* replaces the best.
closer(acc, candidate, c, last, libm) ==
    IF IsNone(c) THEN acc
    ELSE LET dist == hypot(libm, Val(c)[1] - last[1], Val(c)[2] - last[2])
         IN  IF IsNone(acc.min_dist) \/ hypot_less(dist, Val(acc.min_dist))
             THEN [min_dist |-> Some(dist), best_candidate |-> Some(candidate)]
             ELSE acc

\* The loop of find_screen over valid_candidates from index i on.
RECURSIVE nearest_candidate(_, _, _, _, _)
nearest_candidate(valid_candidates, last, libm, i, acc) ==
    IF i > Len(valid_candidates) THEN acc
    ELSE nearest_candidate(valid_candidates, last, libm, i + 1,
                           closer(acc, valid_candidates[i],
                                  _get_centroid(valid_candidates[i]), last, libm))

\* After the loop: the nearest candidate is dropped when it is farther than
\* frame.shape[1] / 4 (a distance that equals a quarter of the width is an
\* integer and exact), and without one the first of the largest candidates
\* is taken (a stable sort by area, descending).
best_candidate(valid_candidates, width, near) ==
    IF IsNone(near.best_candidate) \/ 16 * Val(near.min_dist)[1] > width * width
    THEN valid_candidates[argmax([i \in 1..Len(valid_candidates) |->
                                     contourArea2(valid_candidates[i])])]
    ELSE Val(near.best_candidate)

\* find_screen once the centroid `last` of the previous quad is computed.
find_screen_with(valid_candidates, width, last_corners, last, libm) ==
    IF valid_candidates = <<>> THEN [raised |-> FALSE, corners |-> None]
    ELSE IF /\ ~IsNone(last_corners)
            /\ IsNone(last)
            /\ \E i \in 1..Len(valid_candidates) : ~IsNone(_get_centroid(valid_candidates[i]))
         THEN [raised |-> TRUE, corners |-> None]
         ELSE [raised |-> FALSE,
               corners |-> Some(order_points(best_candidate(
                   valid_candidates, width,
                   IF IsNone(last) THEN [min_dist |-> None, best_candidate |-> None]
                   ELSE nearest_candidate(valid_candidates, Val(last), libm, 1,
                                          [min_dist |-> None, best_candidate |-> None]))))]

\* find_screen.  The contour analysis up to the list of four-sided
\* candidates is OpenCV's: frame.candidates is valid_candidates, in
\* contour-scan order.  With a previous quad the candidate nearest to its
\* centroid is taken unless it is farther than frame.shape[1] / 4; without
\* one, or without such a candidate, the first of the largest candidates.
\* A previous quad without a centroid makes the distance
\* `candidate_cx - None`, a TypeError.  libm is the C library's rounding of
\* hypot; without a previous quad no distance is computed.
find_screen(frame, last_corners, libm) ==
    find_screen_with(frame.candidates, frame.w, last_corners,
                     IF IsNone(last_corners) THEN None
                     ELSE _get_centroid(Val(last_corners)),
                     libm)


\* cv2.boundingRect of integer points: (x, y, w, h) with the points on the
\* right and bottom edge inside.
boundingRect(corners) ==
    LET xs == {corners[i][1] : i \in 1..Len(corners)}
        ys == {corners[i][2] : i \in 1..Len(corners)}
    IN  [x |-> MinOf(xs), y |-> MinOf(ys),
         w |-> MaxOf(xs) - MinOf(xs) + 1, h |-> MaxOf(ys) - MinOf(ys) + 1]

\* C15 variant: the left and top bounds are not clamped.
extract_bbox_with_padding_unclamped(frame, corners, pad) ==
    LET r == boundingRect(corners)
    IN  <<r.x - pad, r.y - pad,
          IF r.x + r.w + pad <= frame.w THEN r.x + r.w + pad ELSE frame.w,
          IF r.y + r.h + pad <= frame.h THEN r.y + r.h + pad ELSE frame.h>>

\* extract_bbox_with_padding: the bounds of the crop.  frame.shape is (h, w).
extract_bbox_with_padding(frame, corners, pad) ==
    LET r == boundingRect(corners)
        x1 == Max2(r.x - pad, 0)
        y1 == Max2(r.y - pad, 0)
        x2 == IF r.x + r.w + pad <= frame.w THEN r.x + r.w + pad ELSE frame.w
        y2 == IF r.y + r.h + pad <= frame.h THEN r.y + r.h + pad ELSE frame.h
    IN  <<x1, y1, x2, y2>>

\* The whole frame as a region.
Whole(frame) == [img |-> frame.img, box |-> <<0, 0, frame.w, frame.h>>]

\* C13 variant: a miss is reported as a detection.
detect_and_crop_slide_always_detected(frame) ==
    LET corners == find_screen(frame, None, <<>>).corners
    IN  IF IsNone(corners)
        THEN [cropped |-> Whole(frame), detected |-> TRUE, corners |-> None]
        ELSE [cropped |-> [img |-> frame.img,
                           box |-> extract_bbox_with_padding(frame, Val(corners), EXTRA_PAD)],
              detected |-> TRUE, corners |-> corners]

\* detect_and_crop_slide for the corners find_screen returned: (cropped,
\* detected, corners).
crop_slide(frame, corners) ==
    IF IsNone(corners)
    THEN [cropped |-> Whole(frame), detected |-> FALSE, corners |-> None]
    ELSE [cropped |-> [img |-> frame.img,
                       box |-> extract_bbox_with_padding(frame, Val(corners), EXTRA_PAD)],
          detected |-> TRUE, corners |-> corners]

detect_and_crop_slide(frame) == crop_slide(frame, find_screen(frame, None, <<>>).corners)

----------------------------------------------------------------------------
(* server/storage/manager.py *)

\* SlideState() with every field None: what load_last_state returns when
\* nothing has been persisted.
EmptyDisk == [text |-> None, clip |-> None, json |-> None, img |-> None]

\* C10 mutant: the summary file is not read back.
load_last_state_no_summary(d) ==
    [summary |-> None, image_path |-> d.img, text |-> d.text, clip_vector |-> d.clip]

\* load_last_state: each field is read from its own file, None when the file
\* does not exist.  image_path stands for the file it points to.
load_last_state(d) ==
    [summary |-> d.json, image_path |-> d.img, text |-> d.text, clip_vector |-> d.clip]

\* save_last_state: four writes one after the other; the summary file is
\* written only when summary is not None; cv2.imwrite returning False raises
\* RuntimeError after the other files have been written (a failed imwrite
\* leaves the image file as it was).
save_last_state(d, image, summary, text, clip_vector, imwrite_ok) ==
    LET d1 == [d EXCEPT !.text = Some(text)]
        d2 == [d1 EXCEPT !.clip = Some(clip_vector)]
        d3 == IF ~IsNone(summary) THEN [d2 EXCEPT !.json = summary] ELSE d2
        d4 == IF imwrite_ok THEN [d3 EXCEPT !.img = Some(image)] ELSE d3
    IN  [disk |-> d4, raised |-> ~imwrite_ok]

\* history[-limit:] for limit > 0.
LastN(h, n) == IF n >= Len(h) THEN h ELSE SubSeq(h, Len(h) - n + 1, Len(h))

\* load_slide_history(limit): limit is Optional.
load_slide_history(l, limit) ==
    IF ~IsNone(limit) /\ Val(limit) > 0 THEN LastN(l, Val(limit)) ELSE l

append_slide_history(l, entry) == Append(load_slide_history(l, None), entry)

\* C19 variant: the latest entry survives the reset.
reset_slide_history_keeps_latest(l) == LastN(l, 1)

\* reset_slide_history: the log file is removed, which reads as no entries.
reset_slide_history(l) == <<>>

----------------------------------------------------------------------------
(* server/routers/slides.py *)

TEXT_THRESHOLD == 60
CLIP_THRESHOLD == 88

\* Module state at import: nothing cached, nothing loaded.
InitMem == [text |-> None, clip |-> None, init |-> FALSE]

\* C16 variant: the files are not read when the module state is fresh.
_ensure_previous_state_loaded_skipped(m, d) ==
    [text |-> m.text, clip |-> m.clip, init |-> TRUE]

_ensure_previous_state_loaded(m, d) ==
    IF m.init THEN m
    ELSE LET state == load_last_state(d)
         IN  [text |-> state.text,
              clip |-> IF ~IsNone(state.clip_vector) THEN state.clip_vector ELSE m.clip,
              init |-> TRUE]

\* C4 mutant: the decision already caches the features of the current frame.
_determine_change_eager(m, d, current_text, current_clip) ==
    LET m1 == _ensure_previous_state_loaded(m, d)
        m2 == [m1 EXCEPT !.text = Some(current_text), !.clip = Some(current_clip)]
    IN  IF IsNone(m1.text) \/ IsNone(m1.clip)
        THEN [mem |-> m2, is_new |-> TRUE, text_similarity |-> None, clip_cosine |-> None]
        ELSE LET text_similarity == token_sort_ratio(current_text, Val(m1.text))
                 clip_cosine == cosine_np(current_clip, Val(m1.clip))
             IN  [mem |-> m2,
                  is_new |-> text_similarity < TEXT_THRESHOLD /\ clip_cosine < CLIP_THRESHOLD,
                  text_similarity |-> Some(text_similarity),
                  clip_cosine |-> Some(clip_cosine)]

\* _determine_change: (is_new, text_similarity, clip_cosine), together with
\* the module state after _ensure_previous_state_loaded.
_determine_change(m, d, current_text, current_clip) ==
    LET m1 == _ensure_previous_state_loaded(m, d)
    IN  IF IsNone(m1.text) \/ IsNone(m1.clip)
        THEN [mem |-> m1, is_new |-> TRUE, text_similarity |-> None, clip_cosine |-> None]
        ELSE LET text_similarity == token_sort_ratio(current_text, Val(m1.text))
                 clip_cosine == cosine_np(current_clip, Val(m1.clip))
             IN  [mem |-> m1,
                  is_new |-> text_similarity < TEXT_THRESHOLD /\ clip_cosine < CLIP_THRESHOLD,
                  text_similarity |-> Some(text_similarity),
                  clip_cosine |-> Some(clip_cosine)]

\* C5 mutant: the module state is not updated.
_update_memory_dropped(m, text, clip_vector) == m

_update_memory(m, text, clip_vector) ==
    [m EXCEPT !.text = Some(text), !.clip = Some(clip_vector)]

\* C7 mutant: the last slide number is reused.
_append_slide_history_entry_same_number(l, summary, text_similarity, clip_cosine) ==
    LET history == load_slide_history(l, None)
        slide_number == IF history # <<>>
                        THEN history[Len(history)].slide_number
                        ELSE 1
        entry == [slide_number |-> slide_number,
                  summary |-> summary,
                  metrics |-> [text_similarity |-> text_similarity,
                               clip_cosine |-> clip_cosine]]
    IN  [log |-> append_slide_history(l, entry), entry |-> entry]

\* _append_slide_history_entry: the next slide number is one more than the
\* last stored one, 1 for an empty log.  (The timestamp is left out.)
_append_slide_history_entry(l, summary, text_similarity, clip_cosine) ==
    LET history == load_slide_history(l, None)
        slide_number == IF history # <<>>
                        THEN history[Len(history)].slide_number + 1
                        ELSE 1
        entry == [slide_number |-> slide_number,
                  summary |-> summary,
                  metrics |-> [text_similarity |-> text_similarity,
                               clip_cosine |-> clip_cosine]]
    IN  [log |-> append_slide_history(l, entry), entry |-> entry]

USE_BBOX_FOR_ANALYSIS == FALSE

\* embed_image and extract_text of a region of a frame: the frame records
\* what they yield on the whole frame and on its padded crop.
embed_image(frame, region) ==
    IF region = Whole(frame) THEN frame.clip ELSE frame.crop_clip
extract_text(frame, region) ==
    IF region = Whole(frame) THEN frame.text ELSE frame.crop_text

_corners_to_points(corners) == corners

\* _process_frame after the detection det: a detection miss is no error;
\* the analysis region is the crop only when a slide was detected and
\* USE_BBOX_FOR_ANALYSIS is set.
analyse_frame(frame, det) ==
    LET analysis_region == IF det.detected /\ USE_BBOX_FOR_ANALYSIS
                           THEN det.cropped ELSE Whole(frame)
    IN  [analysis_image |-> analysis_region,
         clip_vector |-> embed_image(frame, analysis_region),
         ocr_text |-> extract_text(frame, analysis_region),
         visual |-> [slide_detected |-> det.detected,
                     bounding_box |-> _corners_to_points(det.corners)]]

_process_frame(frame) == analyse_frame(frame, detect_and_crop_slide(frame))

\* bool(summary_payload): None and the empty documents are falsy.
truthy(summary_payload) ==
    ~IsNone(summary_payload) /\ Val(summary_payload).shape # "empty"

\* GeminiSummary.model_validate(summary_payload) if summary_payload else None:
\* a falsy payload is not validated and gives None, a document of the wrong
\* shape raises ValidationError.
summary_model(summary_payload) ==
    IF ~truthy(summary_payload) THEN [raised |-> FALSE, summary |-> None]
    ELSE IF Val(summary_payload).shape = "bad" THEN [raised |-> TRUE, summary |-> None]
    ELSE [raised |-> FALSE, summary |-> summary_payload]

\* CONVERSATION_MEMORY_LIMIT is not set: the default.
MAX_CONVERSATION_MEMORY == 5

\* del lst[:stop] as Python resolves the slice: a negative stop counts from
\* the end, and stop = 0 (also -0) is the empty prefix.
del_prefix(lst, stop) ==
    LET n == IF stop < 0 THEN Max2(stop + Len(lst), 0)
             ELSE IF stop > Len(lst) THEN Len(lst) ELSE stop
    IN  SubSeq(lst, n + 1, Len(lst))

\* _record_conversation: the memory after the call.  limit is the value
\* MAX_CONVERSATION_MEMORY has in the process.
_record_conversation(memory, limit, question, answer, slide_number) ==
    LET appended == Append(memory, [question |-> strip(question),
                                    answer |-> strip(answer),
                                    slide_number |-> slide_number])
    IN  IF Len(appended) > limit THEN del_prefix(appended, -limit) ELSE appended

----------------------------------------------------------------------------
(* Frames, documents and the environment's choices *)

MaxRequests == 3
MaxInFlight == 2
MaxFaults == 1

\* OCR texts: "ab c" and "dd".
TextABC == <<1, 2, SPACE, 3>>
TextDD == <<4, 4>>

\* A decoded frame: its pixels (img), and what the OCR and the embedding
\* model make of it.  Between them the four frames show every combination
\* of text similarity and cosine below and above the thresholds.
\* In frames A and D the detector finds no slide; B shows an upright and C
\* a tilted one.
FrameA == [img |-> 1, w |-> 160, h |-> 120, candidates |-> <<>>,
           text |-> TextABC, clip |-> E1, crop_text |-> TextABC, crop_clip |-> E1]
FrameB == [img |-> 2, w |-> 160, h |-> 120,
           candidates |-> <<<<<<10, 8>>, <<10, 40>>, <<54, 40>>, <<54, 8>>>>>>,
           text |-> TextABC, clip |-> E2, crop_text |-> TextABC, crop_clip |-> E1]
FrameC == [img |-> 3, w |-> 160, h |-> 120,
           candidates |-> <<<<<<20, 5>>, <<5, 30>>, <<40, 44>>, <<58, 12>>>>>>,
           text |-> TextDD, clip |-> E3, crop_text |-> TextDD, crop_clip |-> E3]
FrameD == [img |-> 4, w |-> 160, h |-> 120, candidates |-> <<>>,
           text |-> TextDD, clip |-> E2, crop_text |-> TextDD, crop_clip |-> E2]
Frames == {FrameA, FrameB, FrameC, FrameD}

\* The frame an image was decoded from.
FrameOf(image) == CHOOSE f \in Frames : f.img = image

\* An upload is the encoding of a frame, or bytes cv2.imdecode rejects.
Uploads == {Some(f) : f \in Frames} \cup {None}

\* The pixels of an upload, 0 for undecodable bytes.
ImageOf(upload) == IF IsNone(upload) THEN 0 ELSE Val(upload).img

\* What summarize_slide does when it is called on an image.  It raises
\* GeminiError (the API call failed, or the answer is not JSON), or
\* AttributeError out of `response.text.strip()` when the response carries
\* no text; or it returns json.loads of the answer, which is null, a
\* document of the expected shape, a value that is not None but falsy
\* ("empty": {} [] 0 "" false), or a document GeminiSummary rejects.
Doc(image, shape) == [of |-> image, shape |-> shape]
GeminiOk(image) == [raised |-> FALSE, exc |-> "", payload |-> Some(Doc(image, "ok"))]
summarize_slide(image) ==
    {GeminiOk(image),
     [raised |-> TRUE, exc |-> "GeminiError", payload |-> None],
     [raised |-> TRUE, exc |-> "AttributeError", payload |-> None],
     [raised |-> FALSE, exc |-> "", payload |-> None],
     [raised |-> FALSE, exc |-> "", payload |-> Some(Doc(image, "empty"))],
     [raised |-> FALSE, exc |-> "", payload |-> Some(Doc(image, "bad"))]}

----------------------------------------------------------------------------
(* process_slide *)

\* What a request did and returned: the HTTP status (200 for a returned
\* ProcessSlideResponse), the number of summarize_slide calls it made, and
\* the fields of the response: the decision, its metrics (clip_cosine is a
\* float, 0.0 where the decision has none), the detection and the summary.
\* ProcessSlideResponse has no slide_number field: the slide number the
\* handler passes to it is dropped.
Response(dc, sample, status, calls, summary) ==
    [status |-> status, new_slide |-> dc.is_new, calls |-> calls,
     text_similarity |-> dc.text_similarity,
     clip_cosine |-> IF ~IsNone(dc.clip_cosine) THEN dc.clip_cosine ELSE Some(0),
     slide_detected |-> sample.visual.slide_detected,
     bounding_box |-> sample.visual.bounding_box,
     summary |-> summary]

\* The arguments of a save_last_state call.
SaveCall(image, summary, text, clip_vector) ==
    Some([image |-> image, summary |-> summary, text |-> text, clip_vector |-> clip_vector])

\* process_slide, the `if is_new:` branch.  dc is the decision with the
\* module state it left, gem what summarize_slide does, imwrite_ok whether
\* cv2.imwrite succeeds inside save_last_state.
process_slide_new(dc, d, l, sample, gem, imwrite_ok) ==
    IF gem.raised
    THEN \* GeminiError -> HTTP 502; any other exception is not caught -> 500
         [mem |-> dc.mem, disk |-> d, log |-> l, saved |-> None,
          out |-> Response(dc, sample,
                           IF gem.exc = "GeminiError" THEN 502 ELSE 500,
                           1, None)]
    ELSE LET summary_payload == gem.payload
             sv == save_last_state(d, sample.analysis_image, summary_payload,
                                   sample.ocr_text, sample.clip_vector, imwrite_ok)
             call == SaveCall(sample.analysis_image, summary_payload,
                              sample.ocr_text, sample.clip_vector)
         IN  IF sv.raised
             THEN \* RuntimeError out of save_last_state -> HTTP 500
                  [mem |-> dc.mem, disk |-> sv.disk, log |-> l, saved |-> call,
                   out |-> Response(dc, sample, 500, 1, None)]
             ELSE LET m2 == _update_memory(dc.mem, sample.ocr_text, sample.clip_vector)
                      ap == IF ~IsNone(summary_payload)
                            THEN _append_slide_history_entry(
                                     l, Val(summary_payload),
                                     dc.text_similarity, dc.clip_cosine)
                            ELSE [log |-> l, entry |-> None]
                      sm == summary_model(summary_payload)
                  IN  [mem |-> m2, disk |-> sv.disk, log |-> ap.log, saved |-> call,
                       out |-> IF sm.raised
                               THEN Response(dc, sample, 500, 1, None)
                               ELSE Response(dc, sample, 200, 1, sm.summary)]

\* C27 variant: an unchanged frame does not replace the cached features, so
\* later frames are compared with the last summarized one.
process_slide_unchanged_keeps_reference(dc, d, l, sample, imwrite_ok) ==
    LET state == load_last_state(d)
        summary_payload == state.summary
        sv == save_last_state(d, sample.analysis_image, summary_payload,
                              sample.ocr_text, sample.clip_vector, imwrite_ok)
        call == SaveCall(sample.analysis_image, summary_payload,
                         sample.ocr_text, sample.clip_vector)
    IN  IF sv.raised
        THEN [mem |-> dc.mem, disk |-> sv.disk, log |-> l, saved |-> call,
              out |-> Response(dc, sample, 500, 0, None)]
        ELSE LET sm == summary_model(summary_payload)
             IN  [mem |-> dc.mem, disk |-> sv.disk, log |-> l, saved |-> call,
                  out |-> IF sm.raised
                          THEN Response(dc, sample, 500, 0, None)
                          ELSE Response(dc, sample, 200, 0, sm.summary)]

\* process_slide, the `else:` branch: the cached summary is read back from
\* the files and saved again with the features of the current frame.
process_slide_unchanged(dc, d, l, sample, imwrite_ok) ==
    LET state == load_last_state(d)
        summary_payload == state.summary
        sv == save_last_state(d, sample.analysis_image, summary_payload,
                              sample.ocr_text, sample.clip_vector, imwrite_ok)
        call == SaveCall(sample.analysis_image, summary_payload,
                         sample.ocr_text, sample.clip_vector)
    IN  IF sv.raised
        THEN [mem |-> dc.mem, disk |-> sv.disk, log |-> l, saved |-> call,
              out |-> Response(dc, sample, 500, 0, None)]
        ELSE LET m2 == _update_memory(dc.mem, sample.ocr_text, sample.clip_vector)
                 sm == summary_model(summary_payload)
             IN  [mem |-> m2, disk |-> sv.disk, log |-> l, saved |-> call,
                  out |-> IF sm.raised
                          THEN Response(dc, sample, 500, 0, None)
                          ELSE Response(dc, sample, 200, 0, sm.summary)]

\* C1 mutant: the summarizer branch is taken whatever the decision.
process_slide_body_ungated(m, d, l, upload, gem, imwrite_ok) ==
    IF IsNone(upload)
    THEN [mem |-> m, disk |-> d, log |-> l, saved |-> None,
          out |-> [status |-> 400, new_slide |-> FALSE, calls |-> 0,
                   text_similarity |-> None, clip_cosine |-> None,
                   slide_detected |-> FALSE, bounding_box |-> None,
                   summary |-> None]]
    ELSE LET sample == _process_frame(Val(upload))
             dc == _determine_change(m, d, sample.ocr_text, sample.clip_vector)
         IN  process_slide_new(dc, d, l, sample, gem, imwrite_ok)

\* _process_frame of each frame, computed once.
ProcessedFrames == [frame \in Frames |-> _process_frame(frame)]

\* process_slide from the sample _process_frame returned on: the decision
\* and the branch it selects.
process_slide_decoded(m, d, l, sample, gem, imwrite_ok) ==
    LET dc == _determine_change(m, d, sample.ocr_text, sample.clip_vector)
    IN  IF dc.is_new
        THEN process_slide_new(dc, d, l, sample, gem, imwrite_ok)
        ELSE process_slide_unchanged(dc, d, l, sample, imwrite_ok)

\* The body of process_slide after `await image.read()`: it has no further
\* await, so it runs on the event loop from decode_image to its return or
\* raise without any other request running in between.  The result holds
\* the module state, the files and the log as the request leaves them, the
\* save_last_state call it made (saved) and what it did and returned (out).
process_slide_body(m, d, l, upload, gem, imwrite_ok) ==
    IF IsNone(upload)
    THEN \* decode_image raises ValueError -> HTTP 400
         [mem |-> m, disk |-> d, log |-> l, saved |-> None,
          out |-> [status |-> 400, new_slide |-> FALSE, calls |-> 0,
                   text_similarity |-> None, clip_cosine |-> None,
                   slide_detected |-> FALSE, bounding_box |-> None,
                   summary |-> None]]
    ELSE process_slide_decoded(m, d, l, ProcessedFrames[Val(upload)], gem, imwrite_ok)

\* The failures the environment produced in one request: an undecodable
\* upload, a summarizer call that raised or returned no usable document, a
\* failed cv2.imwrite.  A choice for a call that is not made is no failure.
FaultsOf(upload, gem, imwrite_ok, res) ==
    (IF IsNone(upload) THEN 1 ELSE 0)
    + (IF res.out.calls = 1 /\ gem # GeminiOk(ImageOf(upload)) THEN 1 ELSE 0)
    + (IF ~IsNone(res.saved) /\ ~imwrite_ok THEN 1 ELSE 0)

NoProbe == [fn |-> "none", args |-> <<>>, out |-> <<>>]

Init ==
    /\ mem = InitMem
    /\ disk = EmptyDisk
    /\ log = <<>>
    /\ inflight = EmptyBag
    /\ comparing = EmptyBag
    /\ arrived = 0
    /\ faults = 0
    /\ trace = <<>>
    /\ last_save = None
    /\ _conversation_memory = <<>>
    /\ probe = NoProbe

\* The suspended requests once one of them has finished: each of them has
\* now been in flight while another request ran (old).
Aged(b) ==
    LET us == {e.upload : e \in BagToSet(b)}
    IN  [e \in {[upload |-> u, old |-> TRUE] : u \in us} |->
            CopiesIn([upload |-> e.upload, old |-> FALSE], b) + CopiesIn(e, b)]

\* A request arrives and its coroutine suspends reading the upload; max
\* bounds the number of requests of a run.
Arrive(upload, max) ==
    /\ arrived < max
    /\ BagCardinality(inflight) + BagCardinality(comparing) < MaxInFlight
    /\ arrived' = arrived + 1
    /\ inflight' = inflight (+) SetToBag({[upload |-> upload, old |-> FALSE]})
    /\ UNCHANGED <<mem, disk, log, comparing, faults, trace, last_save, probe,
                   _conversation_memory>>

\* What the trace keeps of a finished request: its image, whether it was in
\* flight while the request finished just before it ran, whether it was the
\* first request of its process (cold), its status, its
\* decision with the metrics, its summarize_slide calls, whether its
\* save_last_state call raised, the summary it returned, and the length of
\* the log it left.
TraceEntry(r, res, imwrite_ok) ==
    [image |-> ImageOf(r.upload),
     overlapped |-> r.old,
     cold |-> ~mem.init,
     status |-> res.out.status,
     new_slide |-> res.out.new_slide,
     calls |-> res.out.calls,
     save_failed |-> ~IsNone(res.saved) /\ ~imwrite_ok,
     text_similarity |-> res.out.text_similarity,
     clip_cosine |-> res.out.clip_cosine,
     slide_detected |-> res.out.slide_detected,
     bounding_box |-> res.out.bounding_box,
     summary |-> res.out.summary,
     history_len |-> Len(res.log)]

\* The choices the environment has in a request: what summarize_slide does
\* if the request calls it, and whether cv2.imwrite succeeds if the request
\* gets to save_last_state.  There is no choice for a call that is not made.
GeminiChoices(r) ==
    IF ~IsNone(r.upload)
       /\ _determine_change(mem, disk, Val(r.upload).text, Val(r.upload).clip).is_new
    THEN summarize_slide(ImageOf(r.upload))
    ELSE {GeminiOk(ImageOf(r.upload))}

ImwriteChoices(r, gem) ==
    IF IsNone(r.upload) \/ gem.raised THEN {TRUE} ELSE BOOLEAN

\* The event loop resumes one suspended request and runs it to its end.
\* The trace keeps the latest `keep` requests.
process_slide(r, gem, imwrite_ok, keep) ==
    \E res \in {process_slide_body(mem, disk, log, r.upload, gem, imwrite_ok)} :
        /\ faults + FaultsOf(r.upload, gem, imwrite_ok, res) <= MaxFaults
        /\ faults' = faults + FaultsOf(r.upload, gem, imwrite_ok, res)
        /\ inflight' = Aged(inflight (-) SetToBag({r}))
        /\ mem' = res.mem
        /\ disk' = res.disk
        /\ log' = res.log
        /\ last_save' = IF IsNone(res.saved) THEN last_save ELSE res.saved
        /\ trace' = LastN(Append(trace, TraceEntry(r, res, imwrite_ok)), keep)
        /\ UNCHANGED <<comparing, arrived, probe, _conversation_memory>>

\* The server process is restarted: the module state is as at import (no
\* cached features, no conversation turns), the suspended requests are gone,
\* the files stay.  Restarts count against the same budget as the failures.
Restart ==
    /\ mem.init
    /\ faults < MaxFaults
    /\ faults' = faults + 1
    /\ mem' = InitMem
    /\ inflight' = EmptyBag
    /\ comparing' = EmptyBag
    /\ _conversation_memory' = <<>>
    /\ UNCHANGED <<disk, log, arrived, trace, last_save, probe>>

\* reset_slide_history is called (a new observation session starts) on a
\* log that holds entries.  Resets count against the same budget too.
ResetHistory ==
    /\ log # <<>>
    /\ faults < MaxFaults
    /\ faults' = faults + 1
    /\ log' = reset_slide_history(log)
    /\ UNCHANGED <<mem, disk, inflight, comparing, arrived, trace, last_save, probe, _conversation_memory>>

Next ==
    \/ \E upload \in Uploads : Arrive(upload, MaxRequests)
    \/ \E r \in BagToSet(inflight) :
          \E gem \in GeminiChoices(r) :
             \E imwrite_ok \in ImwriteChoices(r, gem) : process_slide(r, gem, imwrite_ok, 2)

Spec == Init /\ [][Next]_vars

\* The requests with restarts of the server process.
NextRestart == Next \/ Restart
SpecRestart == Init /\ [][NextRestart]_vars

\* The requests with resets of the history log.
NextReset == Next \/ ResetHistory
SpecReset == Init /\ [][NextReset]_vars

----------------------------------------------------------------------------
(* The end-to-end scenario: frames A, B, C are submitted in this order, then
   any one upload, and the trace keeps every request. *)

Script == <<FrameA, FrameB, FrameC>>

NextScenario ==
    \/ \E upload \in Uploads :
          /\ arrived < Len(Script) => upload = Some(Script[arrived + 1])
          /\ Arrive(upload, Len(Script) + 1)
    \/ \E r \in BagToSet(inflight) :
          \E gem \in GeminiChoices(r) :
             \E imwrite_ok \in ImwriteChoices(r, gem) :
                process_slide(r, gem, imwrite_ok, Len(Script) + 1)

SpecScenario == Init /\ [][NextScenario]_vars

----------------------------------------------------------------------------
(* /compare_slides and /ask, between the /process_slide requests.  Their
   requests count as requests received; probe holds the latest response. *)

\* C28 variant: the second frame's features are cached as process_slide
\* caches them.
compare_slides_caching(m, upload1, upload2) ==
    IF IsNone(upload1) \/ IsNone(upload2)
    THEN [mem |-> m, out |-> [status |-> 400]]
    ELSE LET sample1 == _process_frame(Val(upload1))
             sample2 == _process_frame(Val(upload2))
             text_similarity == token_sort_ratio(sample1.ocr_text, sample2.ocr_text)
             clip_cosine == cosine_np(sample1.clip_vector, sample2.clip_vector)
         IN  [mem |-> _update_memory(m, sample2.ocr_text, sample2.clip_vector),
              out |-> [status |-> 200,
                       slide1 |-> sample1.visual,
                       slide2 |-> sample2.visual,
                       metrics |-> [clip_cosine |-> clip_cosine,
                                    text_similarity |-> text_similarity],
                       new_slide |-> text_similarity < TEXT_THRESHOLD
                                     /\ clip_cosine < CLIP_THRESHOLD]]

\* compare_slides: the response (400 when an upload does not decode),
\* together with the module state the call leaves.
compare_slides(m, upload1, upload2) ==
    IF IsNone(upload1) \/ IsNone(upload2)
    THEN [mem |-> m, out |-> [status |-> 400]]
    ELSE LET sample1 == _process_frame(Val(upload1))
             sample2 == _process_frame(Val(upload2))
             text_similarity == token_sort_ratio(sample1.ocr_text, sample2.ocr_text)
             clip_cosine == cosine_np(sample1.clip_vector, sample2.clip_vector)
         IN  [mem |-> m,
              out |-> [status |-> 200,
                       slide1 |-> sample1.visual,
                       slide2 |-> sample2.visual,
                       metrics |-> [clip_cosine |-> clip_cosine,
                                    text_similarity |-> text_similarity],
                       new_slide |-> text_similarity < TEXT_THRESHOLD
                                     /\ clip_cosine < CLIP_THRESHOLD]]

\* Pairs of uploads to compare: beyond both thresholds (A, C), and with a
\* first or a second upload that does not decode.
ComparePairs ==
    {<<Some(FrameA), Some(FrameC)>>, <<None, Some(FrameA)>>, <<Some(FrameA), None>>}

\* The requests comparing holds: the uploads of the request and the number
\* of them it has read.
Comparison(image1, image2, reads) ==
    [image1 |-> image1, image2 |-> image2, reads |-> reads]

\* A /compare_slides request arrives and its coroutine suspends at
\* `await image1.read()`.
CompareArrive ==
    \E pair \in ComparePairs :
        /\ arrived < MaxRequests
        /\ BagCardinality(inflight) + BagCardinality(comparing) < MaxInFlight
        /\ arrived' = arrived + 1
        /\ comparing' = comparing (+) SetToBag({Comparison(pair[1], pair[2], 0)})
        /\ UNCHANGED <<mem, disk, log, inflight, faults, trace, last_save, probe,
                       _conversation_memory>>

\* The event loop resumes a comparison that has read nothing yet: image1
\* is decoded, which ends the request with 400 when it fails, and the
\* coroutine suspends at `await image2.read()`.
CompareRead ==
    \E r \in BagToSet(comparing) :
        /\ r.reads = 0
        /\ IF IsNone(r.image1)
           THEN /\ comparing' = comparing (-) SetToBag({r})
                /\ probe' = [fn |-> "compare_slides",
                             args |-> [image1 |-> ImageOf(r.image1),
                                       image2 |-> ImageOf(r.image2)],
                             out |-> compare_slides(mem, r.image1, r.image2).out]
           ELSE /\ comparing' = (comparing (-) SetToBag({r}))
                                    (+) SetToBag({Comparison(r.image1, r.image2, 1)})
                /\ UNCHANGED probe
        /\ UNCHANGED <<mem, disk, log, inflight, arrived, faults, trace, last_save,
                       _conversation_memory>>

\* The event loop resumes a comparison that has read image1: image2 is
\* decoded and the rest of compare_slides runs to its return or raise.
CompareSlides ==
    \E r \in BagToSet(comparing) :
        LET res == compare_slides(mem, r.image1, r.image2)
        IN  /\ r.reads = 1
            /\ comparing' = comparing (-) SetToBag({r})
            /\ mem' = res.mem
            /\ probe' = [fn |-> "compare_slides",
                         args |-> [image1 |-> ImageOf(r.image1),
                                   image2 |-> ImageOf(r.image2)],
                         out |-> res.out]
            /\ UNCHANGED <<disk, log, inflight, arrived, faults, trace, last_save,
                           _conversation_memory>>

QUESTION_RELEVANCE_THRESHOLD == 20

\* OFF_TOPIC_KEYWORDS: "soccer", "football", "basketball", "baseball",
\* "harry potter", "taylor swift", "celebrity", "movie", "music video",
\* "recipe", "cook", "pizza", "burger", "weather", "vacation", "travel".
OFF_TOPIC_KEYWORDS ==
    {<<28, 24, 3, 3, 5, 27>>,
     <<6, 24, 24, 29, 2, 1, 21, 21>>,
     <<2, 1, 28, 20, 5, 29, 2, 1, 21, 21>>,
     <<2, 1, 28, 5, 2, 1, 21, 21>>,
     <<8, 1, 27, 27, 34, SPACE, 25, 24, 29, 29, 5, 27>>,
     <<29, 1, 34, 21, 24, 27, SPACE, 28, 32, 9, 6, 29>>,
     <<3, 5, 21, 5, 2, 27, 9, 29, 34>>,
     <<22, 24, 31, 9, 5>>,
     <<22, 30, 28, 9, 3, SPACE, 31, 9, 4, 5, 24>>,
     <<27, 5, 3, 9, 25, 5>>,
     <<3, 24, 24, 20>>,
     <<25, 9, 35, 35, 1>>,
     <<2, 30, 27, 7, 5, 27>>,
     <<32, 5, 1, 29, 8, 5, 27>>,
     <<31, 1, 3, 1, 29, 9, 24, 23>>,
     <<29, 27, 1, 31, 5, 21>>}

\* ACADEMIC_HINTS: "activation", "algorithm", "analysis", "architecture",
\* "classification", "function", "gradient", "graph", "lecture", "model",
\* "neural", "network", "optimization", "probability", "regression",
\* "statistics", "summary", "training".
ACADEMIC_HINTS ==
    {<<1, 3, 29, 9, 31, 1, 29, 9, 24, 23>>,
     <<1, 21, 7, 24, 27, 9, 29, 8, 22>>,
     <<1, 23, 1, 21, 34, 28, 9, 28>>,
     <<1, 27, 3, 8, 9, 29, 5, 3, 29, 30, 27, 5>>,
     <<3, 21, 1, 28, 28, 9, 6, 9, 3, 1, 29, 9, 24, 23>>,
     <<6, 30, 23, 3, 29, 9, 24, 23>>,
     <<7, 27, 1, 4, 9, 5, 23, 29>>,
     <<7, 27, 1, 25, 8>>,
     <<21, 5, 3, 29, 30, 27, 5>>,
     <<22, 24, 4, 5, 21>>,
     <<23, 5, 30, 27, 1, 21>>,
     <<23, 5, 29, 32, 24, 27, 20>>,
     <<24, 25, 29, 9, 22, 9, 35, 1, 29, 9, 24, 23>>,
     <<25, 27, 24, 2, 1, 2, 9, 21, 9, 29, 34>>,
     <<27, 5, 7, 27, 5, 28, 28, 9, 24, 23>>,
     <<28, 29, 1, 29, 9, 28, 29, 9, 3, 28>>,
     <<28, 30, 22, 22, 1, 27, 34>>,
     <<29, 27, 1, 9, 23, 9, 23, 7>>}

\* _question_tokens: re.findall(r"\b[a-zA-Z][\w-]*\b", text.lower()).  Over
\* letters, underscores and separators a match is a whole word that starts
\* with a letter; inside a word that starts with an underscore there is no
\* word boundary before a letter, so it gives no token.
_question_tokens(text) ==
    LET ws == split(lower(text))
    IN  {ws[i] : i \in {j \in 1..Len(ws) : ws[j][1] # UNDERSCORE}}

\* The keys of the document the prompt asks Gemini for: "title",
\* "enumeration", "equation", "table", "image", "code", "slide_number",
\* "summary".
SummaryKeys ==
    <<<<29, 9, 29, 21, 5>>,
      <<5, 23, 30, 22, 5, 27, 1, 29, 9, 24, 23>>,
      <<5, 26, 30, 1, 29, 9, 24, 23>>,
      <<29, 1, 2, 21, 5>>,
      <<9, 22, 1, 7, 5>>,
      <<3, 24, 4, 5>>,
      <<28, 21, 9, 4, 5, 36, 23, 30, 22, 2, 5, 27>>,
      <<28, 30, 22, 22, 1, 27, 34>>>>

\* The words of a list of words, each followed by a separator.
RECURSIVE Spaced(_)
Spaced(ws) == IF ws = <<>> THEN <<>> ELSE Head(ws) \o <<SPACE>> \o Spaced(Tail(ws))

\* {} as a summary.
EmptyDict == Doc(0, "empty")

\* json.dumps(summary, ensure_ascii=False), with a separator for every
\* character that is not of a word (braces, brackets, quotes, colons,
\* commas, blanks).  A document of the expected shape has the eight keys,
\* "title" with the text of the frame and the others with empty arrays; a
\* document GeminiSummary rejects has "title" with the text as a string in
\* place of an array; a falsy value is written without a word.
json_dumps(summary) ==
    IF summary.shape = "empty" THEN <<SPACE, SPACE>>
    ELSE IF summary.shape = "bad"
    THEN Spaced(<<SummaryKeys[1], FrameOf(summary.of).text>>)
    ELSE Spaced(<<SummaryKeys[1], FrameOf(summary.of).text>>)
         \o Spaced(Tail(SummaryKeys))

\* `keyword in text` for strings.
contains(text, keyword) ==
    \E i \in 0..(Len(text) - Len(keyword)) :
        SubSeq(text, i + 1, i + Len(keyword)) = keyword

\* _is_question_obviously_unrelated as the code computes it; `summary or
\* {}` is {} for a falsy summary.
_is_question_obviously_unrelated_body(question, summary) ==
    LET question_tokens == _question_tokens(question)
        summary_tokens ==
            _question_tokens(lower(json_dumps(IF truthy(Some(summary)) THEN summary
                                              ELSE EmptyDict)))
    IN  IF question_tokens = {} THEN FALSE
        ELSE IF question_tokens \cap summary_tokens # {} THEN FALSE
        ELSE IF question_tokens \cap ACADEMIC_HINTS # {} THEN FALSE
        ELSE \E keyword \in OFF_TOPIC_KEYWORDS : contains(lower(question), keyword)

\* Questions "", " ", " ab" (a word of frames A and B), "pizza" (off
\* topic), "pizza model" (off topic with an academic hint), "pizza title"
\* (off topic with a key of the document); the summary a caller may pass
\* along, {} among them; relevances below and at the threshold.
Questions ==
    {<<>>, <<SPACE>>, <<SPACE, 1, 2>>, <<25, 9, 35, 35, 1>>,
     <<25, 9, 35, 35, 1, SPACE, 22, 24, 4, 5, 21>>,
     <<25, 9, 35, 35, 1, SPACE, 29, 9, 29, 21, 5>>}
SlideSummaries == {None, Some(Doc(1, "ok")), Some(EmptyDict)}
Relevances == {0, 20}

\* _is_question_obviously_unrelated of each stripped question and each
\* summary of a session, computed once: <<question, summary, unrelated>>.
Unrelated ==
    {<<question, summary, _is_question_obviously_unrelated_body(question, summary)>> :
        question \in {strip(q) : q \in Questions} \ {<<>>},
        summary \in {Doc(f.img, shape) : f \in Frames, shape \in {"ok", "bad"}}
                        \cup {EmptyDict}}

_is_question_obviously_unrelated(question, summary) ==
    IF \E known \in Unrelated : known[1] = question /\ known[2] = summary
    THEN (CHOOSE known \in Unrelated : known[1] = question /\ known[2] = summary)[3]
    ELSE _is_question_obviously_unrelated_body(question, summary)

\* The call of answer_question_with_context as ask_question sees it: it
\* returns the answer (here " i"), raises GeminiError, or raises another
\* exception.  slides.py imports the function from server/core/gemini.py,
\* where it is not defined.
answer_question_with_context ==
    {[raised |-> FALSE, exc |-> "", answer |-> <<SPACE, 9>>],
     [raised |-> TRUE, exc |-> "GeminiError", answer |-> <<>>],
     [raised |-> TRUE, exc |-> "Exception", answer |-> <<>>]}

\* C30 variant: the rejection is recorded as a turn too.
ask_question_records_rejection(memory, l, payload, relevance, gem) ==
    LET question == strip(payload.question)
        history == load_slide_history(l, None)
    IN  IF question = <<>> THEN [memory |-> memory, out |-> [status |-> 400]]
        ELSE IF history = <<>>
        THEN [memory |-> memory, out |-> [status |-> 200, kind |-> "no_context"]]
        ELSE LET current_entry == history[Len(history)]
                 slide_number == IF "slide_number" \in DOMAIN current_entry
                                 THEN current_entry.slide_number
                                 ELSE Len(history)
                 stored == IF "summary" \in DOMAIN current_entry
                           THEN current_entry.summary
                           ELSE EmptyDict
                 summary_blob == IF truthy(payload.slide_summary)
                                 THEN Val(payload.slide_summary)
                                 ELSE IF truthy(Some(stored)) THEN stored
                                 ELSE EmptyDict
             IN  IF /\ relevance < QUESTION_RELEVANCE_THRESHOLD
                    /\ _is_question_obviously_unrelated(question, summary_blob)
                 THEN [memory |-> _record_conversation(memory, MAX_CONVERSATION_MEMORY,
                                                       question, <<>>, slide_number),
                       out |-> [status |-> 200, kind |-> "unrelated",
                                slide_number |-> slide_number,
                                relevance |-> relevance]]
                 ELSE IF gem.raised
                 THEN [memory |-> memory,
                       out |-> [status |-> IF gem.exc = "GeminiError" THEN 502 ELSE 500]]
                 ELSE [memory |-> _record_conversation(memory, MAX_CONVERSATION_MEMORY,
                                                       question, gem.answer, slide_number),
                       out |-> [status |-> 200, kind |-> "generated",
                                answer |-> gem.answer,
                                slide_number |-> slide_number,
                                relevance |-> relevance]]

\* ask_question: the response and the conversation memory the call leaves.
\* The handler has no await and runs from its first line to its return or
\* raise.  relevance is the cosine of the two text embeddings in hundredths
\* (0 also when embedding fails), gem what answer_question_with_context
\* does.  summary_blob is `payload.slide_summary or
\* current_entry.get("summary", {}) or {}`.  The responses: 400 for an empty
\* question, the fixed answers for an empty history ("no_context") and for a
\* question off the topic ("unrelated"), 502 for GeminiError, 500 for any
\* other exception, the generated answer.
ask_question(memory, l, payload, relevance, gem) ==
    LET question == strip(payload.question)
        history == load_slide_history(l, None)
    IN  IF question = <<>> THEN [memory |-> memory, out |-> [status |-> 400]]
        ELSE IF history = <<>>
        THEN [memory |-> memory, out |-> [status |-> 200, kind |-> "no_context"]]
        ELSE LET current_entry == history[Len(history)]
                 slide_number == IF "slide_number" \in DOMAIN current_entry
                                 THEN current_entry.slide_number
                                 ELSE Len(history)
                 stored == IF "summary" \in DOMAIN current_entry
                           THEN current_entry.summary
                           ELSE EmptyDict
                 summary_blob == IF truthy(payload.slide_summary)
                                 THEN Val(payload.slide_summary)
                                 ELSE IF truthy(Some(stored)) THEN stored
                                 ELSE EmptyDict
             IN  IF /\ relevance < QUESTION_RELEVANCE_THRESHOLD
                    /\ _is_question_obviously_unrelated(question, summary_blob)
                 THEN [memory |-> memory,
                       out |-> [status |-> 200, kind |-> "unrelated",
                                slide_number |-> slide_number,
                                relevance |-> relevance]]
                 ELSE IF gem.raised
                 THEN [memory |-> memory,
                       out |-> [status |-> IF gem.exc = "GeminiError" THEN 502 ELSE 500]]
                 ELSE [memory |-> _record_conversation(memory, MAX_CONVERSATION_MEMORY,
                                                       question, gem.answer, slide_number),
                       out |-> [status |-> 200, kind |-> "generated",
                                answer |-> gem.answer,
                                slide_number |-> slide_number,
                                relevance |-> relevance]]

\* The questions asked while slides are compared: " ab" and "pizza",
\* without a summary passed along.
SessionQuestions == {<<SPACE, 1, 2>>, <<25, 9, 35, 35, 1>>}

\* An /ask request: received and answered in one step.
AskQuestion(questions, slide_summaries) ==
    \E question \in questions, slide_summary \in slide_summaries,
       relevance \in Relevances, gem \in answer_question_with_context :
        LET res == ask_question(_conversation_memory, log,
                                [question |-> question, slide_summary |-> slide_summary],
                                relevance, gem)
        IN  /\ arrived < MaxRequests
            /\ arrived' = arrived + 1
            /\ _conversation_memory' = res.memory
            /\ probe' = [fn |-> "ask_question",
                         args |-> [question |-> question,
                                   slide_summary |-> slide_summary],
                         out |-> res.out]
            /\ UNCHANGED <<mem, disk, log, inflight, comparing, faults, trace, last_save>>

\* The /process_slide requests of a session: frames A and C, or bytes that
\* do not decode.
SessionUploads == {Some(FrameA), Some(FrameC), None}

NextSession ==
    \/ \E upload \in SessionUploads : Arrive(upload, MaxRequests)
    \/ \E r \in BagToSet(inflight) :
          \E gem \in GeminiChoices(r) :
             \E imwrite_ok \in ImwriteChoices(r, gem) : process_slide(r, gem, imwrite_ok, 2)
    \/ CompareArrive
    \/ CompareRead
    \/ CompareSlides
    \/ AskQuestion(SessionQuestions, {None})

SpecSession == Init /\ [][NextSession]_vars

\* A session of /process_slide and /ask requests, the questions and the
\* summaries passed along drawn from all of Questions and SlideSummaries.
NextAsk ==
    \/ \E upload \in {Some(FrameA), Some(FrameC)} : Arrive(upload, MaxRequests)
    \/ \E r \in BagToSet(inflight) :
          \E gem \in GeminiChoices(r) :
             \E imwrite_ok \in ImwriteChoices(r, gem) : process_slide(r, gem, imwrite_ok, 1)
    \/ AskQuestion(Questions, SlideSummaries)

SpecAsk == Init /\ [][NextAsk]_vars

----------------------------------------------------------------------------
(* The pure functions on their own (the change detectors, the quad
   geometry, the history reader): one call of one of them, on inputs drawn
   from small sets, recorded in probe. *)

\* OCR texts "", "ab c", "dd", "ab d", "Ab c"; embeddings, with a pair at
\* the cosine threshold; pHashes as sets of 1-bits.
Texts == {<<>>, TextABC, TextDD, <<1, 2, SPACE, 4>>, <<11, 2, SPACE, 3>>}
Hashes == {{}, {1, 2}, 1..12}
OptOf(S) == {None} \cup {Some(x) : x \in S}

\* Module states of slides.py: as imported, or after the first request with
\* whatever the files held.
Mems == {InitMem} \cup [text : OptOf({TextABC, TextDD}), clip : OptOf({E1, E3, E4}), init : {TRUE}]
Disks == [text : OptOf({TextABC, TextDD}), clip : OptOf({E1, E3}), json : {None}, img : {None}]

DetermineChangeProbe ==
    \E m \in Mems, d \in Disks, current_text \in Texts, current_clip \in Embeds :
        LET dc == _determine_change(m, d, current_text, current_clip)
        IN  /\ probe = NoProbe
            /\ probe' = [fn |-> "_determine_change",
                         args |-> [previous_text |-> dc.mem.text,
                                   previous_clip |-> dc.mem.clip,
                                   current_text |-> current_text,
                                   current_clip |-> current_clip],
                         out |-> [is_new |-> dc.is_new,
                                  text_similarity |-> dc.text_similarity,
                                  clip_cosine |-> dc.clip_cosine]]
            /\ UNCHANGED <<mem, disk, log, inflight, comparing, arrived, faults, trace, last_save, _conversation_memory>>

\* cosine_np on its own, under both conventions of NumPy.
CosineNpProbe ==
    /\ probe = NoProbe
    /\ \E vec1 \in Embeds, vec2 \in Embeds :
          probe' = [fn |-> "cosine_np",
                    args |-> [vec1 |-> vec1, vec2 |-> vec2],
                    out |-> [float32 |-> cosine_np(vec1, vec2),
                             float64 |-> cosine_np_float64(vec1, vec2)]]
    /\ UNCHANGED <<mem, disk, log, inflight, comparing, arrived, faults, trace, last_save, _conversation_memory>>

\* Texts for the token metric: "", " ", "ab c", "c ab", "AB c", "dd",
\* "dd dd", "ab d", "ab ab c".
TokenTexts ==
    {<<>>, <<SPACE>>, TextABC, <<3, SPACE, 1, 2>>, <<11, 12, SPACE, 3>>, TextDD,
     <<4, 4, SPACE, 4, 4>>, <<1, 2, SPACE, 4>>, <<1, 2, SPACE, 1, 2, SPACE, 3>>}

\* One-word texts "abcdefgh", "abcdefgi" and "Abcdefgh": one character of
\* eight differs, so the sequence similarity is 0.875 while the token delta
\* is 1 or 0.
LongTexts ==
    {<<1, 2, 3, 4, 5, 6, 7, 8>>, <<1, 2, 3, 4, 5, 6, 7, 9>>, <<11, 2, 3, 4, 5, 6, 7, 8>>}

ChangeTexts == Texts \cup TokenTexts \cup LongTexts

\* A slide of 200 characters, four times the same line of five words: each
\* of its characters is popular.  SlideII is the slide after "ii ".
SlideLine ==
    <<1, 2, 3, 4, 5, 6, 7, 8, 9, SPACE, 11, 12, 13, 14, 15, 16, 17, 18, 19, SPACE,
      1, 3, 5, 7, 9, 2, 4, 6, 8, SPACE, 12, 14, 16, 18, 11, 13, 15, 17, 19, SPACE,
      9, 8, 7, 6, 5, 4, 3, 2, 1, SPACE>>
Slide200 == SlideLine \o SlideLine \o SlideLine \o SlideLine
SlideII == <<9, 9, SPACE>> \o Slide200

\* The pairs of texts compared: all pairs of the short texts, and the
\* 200-character slide against itself and against itself with a word more.
ChangePairs ==
    (OptOf(ChangeTexts) \X ChangeTexts)
    \cup {<<Some(SlideII), Slide200>>, <<Some(Slide200), Slide200>>}

EvaluateChangeProbe ==
    \E pair \in ChangePairs : \E previous \in {pair[1]}, current \in {pair[2]} :
        /\ probe = NoProbe
        /\ probe' = [fn |-> "evaluate_change",
                     args |-> [previous |-> previous, current |-> current],
                     out |-> evaluate_change(previous, current)]
        /\ UNCHANGED <<mem, disk, log, inflight, comparing, arrived, faults, trace, last_save, _conversation_memory>>

IsSlideChangedProbe ==
    \E previous \in ChangeTexts, current \in ChangeTexts :
        /\ probe = NoProbe
        /\ probe' = [fn |-> "is_slide_changed",
                     args |-> [previous |-> Some(previous), current |-> current],
                     out |-> [changed |-> is_slide_changed(Some(previous), current)]]
        /\ UNCHANGED <<mem, disk, log, inflight, comparing, arrived, faults, trace, last_save, _conversation_memory>>

IsNewSlideProbe ==
    \E current_vec \in Embeds, current_phash \in Hashes,
       previous_vec \in OptOf(Embeds), previous_phash \in OptOf(Hashes) :
        /\ probe = NoProbe
        /\ probe' = [fn |-> "is_new_slide",
                     args |-> [current_vec |-> current_vec,
                               current_phash |-> current_phash,
                               previous_vec |-> previous_vec,
                               previous_phash |-> previous_phash],
                     out |-> is_new_slide(current_vec, current_phash,
                                          previous_vec, previous_phash)]
        /\ UNCHANGED <<mem, disk, log, inflight, comparing, arrived, faults, trace, last_save, _conversation_memory>>

\* Points with integer coordinates 0..GridMax, and the orders in which four
\* of them can be passed.
GridMax == 2
GridPoints == (0..GridMax) \X (0..GridMax)
Perm4 == {p \in [1..4 -> 1..4] : \A i, j \in 1..4 : p[i] = p[j] => i = j}
Reorder(pts, p) == [i \in 1..4 |-> pts[p[i]]]

\* The z component of (a - o) x (b - o).
Cross(o, a, b) == (a[1] - o[1]) * (b[2] - o[2]) - (a[2] - o[2]) * (b[1] - o[1])

\* q[1], q[2], q[3], q[4] walk around a simple convex quadrilateral: every
\* corner turns the same way.
IsConvexQuad(q) ==
    LET turn(i) == Cross(q[i], q[(i % 4) + 1], q[((i + 1) % 4) + 1])
    IN  (\A i \in 1..4 : turn(i) > 0) \/ (\A i \in 1..4 : turn(i) < 0)

\* Four points that are the corners of a simple convex quadrilateral, passed
\* in any order: one of the three ways to walk around them is convex.
Quads ==
    {pts \in [1..4 -> GridPoints] :
        \/ IsConvexQuad(pts)
        \/ IsConvexQuad(<<pts[1], pts[2], pts[4], pts[3]>>)
        \/ IsConvexQuad(<<pts[1], pts[3], pts[2], pts[4]>>)}

OrderPointsProbe ==
    /\ probe = NoProbe
    /\ \E pts \in Quads :
          probe' = [fn |-> "order_points",
                    args |-> [pts |-> pts],
                    out |-> order_points(pts)]
    /\ UNCHANGED <<mem, disk, log, inflight, comparing, arrived, faults, trace, last_save, _conversation_memory>>

\* Frames of every size up to the grid's, the paddings none, one pixel and
\* the default, and the quads the detector can return for a frame: four
\* corners at pixels of the frame, upright (down to a single pixel) or in
\* any convex position.
ProbeFrames == [w : 1..(GridMax + 1), h : 1..(GridMax + 1)]
Pads == {0, 1, EXTRA_PAD}
Upright(a, b) == <<a, <<b[1], a[2]>>, b, <<a[1], b[2]>>>>
PointBefore(a, b) == a[1] < b[1] \/ (a[1] = b[1] /\ a[2] < b[2])
CornerSets ==
    {Upright(a, b) : a, b \in GridPoints}
    \cup {q \in Quads : \A i \in 1..3 : PointBefore(q[i], q[i + 1])}
InFrame(frame, corners) ==
    \A i \in 1..Len(corners) :
        /\ 0 <= corners[i][1] /\ corners[i][1] < frame.w
        /\ 0 <= corners[i][2] /\ corners[i][2] < frame.h

ExtractBboxProbe ==
    /\ probe = NoProbe
    /\ \E frame \in ProbeFrames, corners \in CornerSets, pad \in Pads :
          /\ InFrame(frame, corners)
          /\ probe' = [fn |-> "extract_bbox_with_padding",
                       args |-> [frame |-> frame, corners |-> corners, pad |-> pad],
                       out |-> extract_bbox_with_padding(frame, corners, pad)]
    /\ UNCHANGED <<mem, disk, log, inflight, comparing, arrived, faults, trace, last_save, _conversation_memory>>

\* Stored histories of up to MaxHistory entries, as successive accepted
\* changes leave them, and the limits a caller can pass.
MaxHistory == 3
RECURSIVE HistoryOf(_)
HistoryOf(n) ==
    IF n = 0 THEN <<>>
    ELSE _append_slide_history_entry(HistoryOf(n - 1), Doc(n, "ok"), None, None).log
Limits == OptOf(0..(MaxHistory + 1))

LoadHistoryProbe ==
    /\ probe = NoProbe
    /\ \E n \in 0..MaxHistory, limit \in Limits :
          probe' = [fn |-> "load_slide_history",
                    args |-> [history |-> HistoryOf(n), limit |-> limit],
                    out |-> load_slide_history(HistoryOf(n), limit)]
    /\ UNCHANGED <<mem, disk, log, inflight, comparing, arrived, faults, trace, last_save, _conversation_memory>>

\* _record_conversation called n times on the memory of a fresh process,
\* under the limits 0..MaxTurns: the k-th call records question k (written
\* with blanks around it), answer k and slide number k.
MaxTurns == 3
QuestionNo(k) == <<SPACE, k, SPACE>>
AnswerNo(k) == <<10 + k, SPACE>>
RECURSIVE Recorded(_, _)
Recorded(n, limit) ==
    IF n = 0 THEN <<>>
    ELSE _record_conversation(Recorded(n - 1, limit), limit,
                              QuestionNo(n), AnswerNo(n), n)

RecordConversationProbe ==
    /\ probe = NoProbe
    /\ \E n \in 0..(MaxTurns + 1), limit \in 0..MaxTurns :
          probe' = [fn |-> "_record_conversation",
                    args |-> [calls |-> n, limit |-> limit],
                    out |-> Recorded(n, limit)]
    /\ UNCHANGED <<mem, disk, log, inflight, comparing, arrived, faults, trace, last_save, _conversation_memory>>

\* Candidate contours: two squares of the same area (QuadA, QuadB), a
\* larger rectangle (QuadC) and a contour that crosses itself and has no
\* area moment (QuadZ).  Previous quads: QuadA, a square between QuadA and
\* QuadB at the same distance from both (QuadL), and what order_points
\* returns for the parallelogram (0,1), (1,0), (3,1), (2,2): two corners
\* twice, without area (QuadFlat).  Frame widths 4, 12 and 64 put a
\* quarter of the width below, at and above the distances that occur.
\* QuadM and QuadN have their centroids at (117, 152) and (128, 147), both
\* at the distance root of 2993 from the centroid (100, 100) of QuadP, in a
\* frame 220 wide.  Libms: how the C library rounds hypot(17, 52) and
\* hypot(28, 47); the other distances that occur differ in their squares,
\* which no rounding reorders.
MaxCandidates == 3
QuadA == <<<<0, 0>>, <<3, 0>>, <<3, 3>>, <<0, 3>>>>
QuadB == <<<<6, 0>>, <<9, 0>>, <<9, 3>>, <<6, 3>>>>
QuadC == <<<<0, 0>>, <<9, 0>>, <<9, 5>>, <<0, 5>>>>
QuadZ == <<<<0, 0>>, <<3, 3>>, <<3, 0>>, <<0, 3>>>>
QuadL == <<<<3, 0>>, <<6, 0>>, <<6, 3>>, <<3, 3>>>>
QuadFlat == order_points(<<<<0, 1>>, <<1, 0>>, <<3, 1>>, <<2, 2>>>>)
QuadM == <<<<116, 151>>, <<118, 151>>, <<118, 153>>, <<116, 153>>>>
QuadN == <<<<127, 146>>, <<129, 146>>, <<129, 148>>, <<127, 148>>>>
QuadP == <<<<99, 99>>, <<101, 99>>, <<101, 101>>, <<99, 101>>>>
CandidateLists ==
    UNION {[1..n -> {QuadA, QuadB, QuadC, QuadZ}] \cup [1..n -> {QuadM, QuadN}] :
           n \in 1..MaxCandidates}
PreviousQuads == OptOf({QuadA, QuadL, QuadFlat, QuadP})
FrameWidths == {4, 12, 64, 220}
Libms == [{<<17, 52>>, <<28, 47>>} -> -1..1]

FindScreenProbe ==
    /\ probe = NoProbe
    /\ \E valid_candidates \in CandidateLists, last_corners \in PreviousQuads,
          w \in FrameWidths, libm \in Libms :
          probe' = [fn |-> "find_screen",
                    args |-> [valid_candidates |-> valid_candidates,
                              last_corners |-> last_corners,
                              frame_width |-> w,
                              libm |-> libm],
                    out |-> find_screen([w |-> w, candidates |-> valid_candidates],
                                        last_corners, libm)]
    /\ UNCHANGED <<mem, disk, log, inflight, comparing, arrived, faults, trace, last_save, _conversation_memory>>

TokenDeltaProbe ==
    /\ probe = NoProbe
    /\ \E previous \in TokenTexts, current \in TokenTexts :
          probe' = [fn |-> "token_delta_ratio",
                    args |-> [previous |-> previous, current |-> current],
                    out |-> token_delta_ratio(previous, current)]
    /\ UNCHANGED <<mem, disk, log, inflight, comparing, arrived, faults, trace, last_save, _conversation_memory>>

NextDetect ==
    \/ TokenDeltaProbe
    \/ DetermineChangeProbe
    \/ CosineNpProbe
    \/ EvaluateChangeProbe
    \/ IsSlideChangedProbe
    \/ RecordConversationProbe
    \/ IsNewSlideProbe
    \/ OrderPointsProbe
    \/ ExtractBboxProbe
    \/ LoadHistoryProbe
    \/ FindScreenProbe

SpecDetect == Init /\ [][NextDetect]_vars

----------------------------------------------------------------------------
(* Properties *)

\* A step in which the event loop runs one request to its end, and the trace
\* entry of that request.
Finishes == BagCardinality(inflight') < BagCardinality(inflight)
Latest(t) == t[Len(t)]

\* C1: the summarizer is invoked exactly when the request is decided changed:
\* every finished request made one summarize_slide call if its decision was
\* new_slide = true and none if it was false.
C1_SummarizerIffChanged ==
    \A i \in 1..Len(trace) :
        trace[i].calls = (IF trace[i].new_slide THEN 1 ELSE 0)

\* C1 witness: a request decided changed that called the summarizer once,
\* followed by a request decided unchanged that returned without calling it.
C1_Witness ==
    /\ Len(trace) = 2
    /\ trace[1].new_slide /\ trace[1].calls = 1 /\ trace[1].status = 200
    /\ ~trace[2].new_slide /\ trace[2].calls = 0 /\ trace[2].status = 200

\* C2 (as claimed): with a previous state, a request is decided changed
\* exactly when at least one of the two signals is below its threshold:
\* new_slide = ~(text_similarity >= 0.60 /\ clip_cosine >= 0.88).
C2_ChangedUnlessBothClear ==
    \A i \in 1..Len(trace) :
        ~IsNone(trace[i].text_similarity) =>
            (trace[i].new_slide <=>
                ~(/\ Val(trace[i].text_similarity) >= TEXT_THRESHOLD
                  /\ Val(trace[i].clip_cosine) >= CLIP_THRESHOLD))

\* C3: with no previous state (previous text or previous embedding null, for
\* evaluate_change also the empty previous text it treats alike), the decision
\* is changed whatever the current features are, in _determine_change,
\* evaluate_change and is_new_slide.
C3_NullPreviousIsChanged ==
    /\ (/\ probe.fn = "_determine_change"
        /\ IsNone(probe.args.previous_text) \/ IsNone(probe.args.previous_clip))
       => probe.out.is_new
    /\ (/\ probe.fn = "evaluate_change"
        /\ IsNone(probe.args.previous) \/ probe.args.previous = Some(<<>>))
       => probe.out.changed
    /\ (/\ probe.fn = "is_new_slide"
        /\ IsNone(probe.args.previous_vec) \/ IsNone(probe.args.previous_phash))
       => probe.out.is_new

\* C3 witness: _determine_change with a cached embedding but no cached text,
\* on a frame whose embedding is the cached one, decides changed.
C3_Witness ==
    /\ probe.fn = "_determine_change"
    /\ IsNone(probe.args.previous_text)
    /\ probe.args.previous_clip = Some(E1)
    /\ probe.args.current_clip = E1
    /\ probe.out.is_new

\* The previous features the next decision compares against: the module
\* state as _ensure_previous_state_loaded leaves it.
Previous(m, d) ==
    LET m1 == _ensure_previous_state_loaded(m, d) IN [text |-> m1.text, clip |-> m1.clip]

\* C4: a request whose summarizer call raises GeminiError fails (502, decided
\* changed) and leaves the files, the previous features and the log as they
\* were; the same frame submitted next is again decided changed and calls the
\* summarizer again.
C4_FailedSummarizerChangesNothing ==
    [][Finishes =>
         /\ Latest(trace').status = 502 =>
               /\ Latest(trace').new_slide
               /\ disk' = disk
               /\ log' = log
               /\ Previous(mem', disk') = Previous(mem, disk)
         /\ (/\ trace # <<>>
             /\ Latest(trace).status = 502
             /\ Latest(trace').image = Latest(trace).image)
            => Latest(trace').new_slide /\ Latest(trace').calls = 1]_vars

\* C4 witness: with a slide already cached, a request fails with 502 and the
\* same frame sent again is decided changed, summarized and returned.
C4_Witness ==
    /\ Len(trace) = 2
    /\ trace[1].status = 502
    /\ ~IsNone(trace[1].text_similarity)
    /\ trace[2].image = trace[1].image
    /\ trace[2].new_slide /\ trace[2].calls = 1 /\ trace[2].status = 200

\* Two requests with the same frame, the second in flight while the first
\* ran and run right after it, the frame being a new slide for the first.
SameNewSlide(first, second) ==
    /\ second.overlapped
    /\ second.image = first.image
    /\ first.new_slide

\* C5 (as claimed): of two concurrent requests showing the same new slide,
\* the summarizer is invoked for at most one.  (Stated for the pairs whose
\* first request did not end in a 500: no failed write is involved.)
C5_AtMostOneSummarized ==
    \A i \in 1..(Len(trace) - 1) :
        (SameNewSlide(trace[i], trace[i + 1]) /\ trace[i].status # 500) =>
            ~(trace[i].calls = 1 /\ trace[i + 1].calls = 1)

\* C5 (amended): two concurrent requests showing the same new slide run one
\* after the other; when the first succeeds the second is decided unchanged
\* and does not call the summarizer; when the first fails with GeminiError
\* the second is decided changed and calls the summarizer too.
C5_SecondSeesFirst ==
    \A i \in 1..(Len(trace) - 1) :
        SameNewSlide(trace[i], trace[i + 1]) =>
            /\ trace[i].status = 200 =>
                  ~trace[i + 1].new_slide /\ trace[i + 1].calls = 0
            /\ trace[i].status = 502 =>
                  trace[i + 1].new_slide /\ trace[i + 1].calls = 1

\* C5 witness: two overlapping requests with the same new slide, the first
\* summarized and returned, the second decided unchanged.
C5_Witness ==
    /\ Len(trace) = 2
    /\ SameNewSlide(trace[1], trace[2])
    /\ ~IsNone(trace[1].text_similarity)
    /\ trace[1].status = 200 /\ trace[1].calls = 1
    /\ ~trace[2].new_slide /\ trace[2].calls = 0 /\ trace[2].status = 200

\* C6 (as claimed): what load_last_state returns never mixes two saves: it
\* is the empty state before the first save_last_state call, and afterwards
\* the four fields are those of the latest call.
C6_SaveIsAtomic ==
    IF IsNone(last_save)
    THEN load_last_state(disk) = load_last_state(EmptyDisk)
    ELSE load_last_state(disk) =
            [summary |-> Val(last_save).summary,
             image_path |-> Some(Val(last_save).image),
             text |-> Some(Val(last_save).text),
             clip_vector |-> Some(Val(last_save).clip_vector)]

\* C7: the slide numbers stored in the log are 1, 2, ..., n in log order.
C7_SlideNumbersCount ==
    \A i \in 1..Len(log) : log[i].slide_number = i

\* C7 witness: a log of two entries.
C7_Witness ==
    /\ Len(log) = 2
    /\ log[2].slide_number = 2

\* C8 (as claimed): every request adds one entry to the log if it was decided
\* changed and returned successfully, and none otherwise.
C8_OneEntryPerAcceptedChange ==
    [][Finishes =>
         Len(log') = Len(log) + (IF Latest(trace').new_slide /\ Latest(trace').status = 200
                                 THEN 1 ELSE 0)]_vars

\* C9 (as claimed): a request decided unchanged that returns gives back the
\* summary the files held before it, leaves the summary file and the log as
\* they were, and leaves the text and embedding of its frame in the files
\* and in the module state.
C9_UnchangedReusesSummary ==
    [][(Finishes /\ ~Latest(trace').new_slide /\ Latest(trace').status = 200) =>
         LET frame == FrameOf(Latest(trace').image)
         IN  /\ Latest(trace').summary = load_last_state(disk).summary
             /\ load_last_state(disk').summary = load_last_state(disk).summary
             /\ log' = log
             /\ disk'.text = Some(frame.text) /\ disk'.clip = Some(frame.clip)
             /\ mem'.text = Some(frame.text) /\ mem'.clip = Some(frame.clip)]_vars

\* C10: from empty storage, with the summarizer and the writes succeeding,
\* frames A, B, C processed in this order are decided changed, unchanged,
\* changed; B returns A's summary without a summarizer call; the summarizer
\* is called for A and for C; the log has 1, 1, 2 entries after them.
C10_ScenarioABC ==
    (/\ Len(trace) >= Len(Script)
     /\ faults = 0
     /\ \A i \in 1..Len(Script) : trace[i].image = Script[i].img)
    => /\ trace[1].new_slide /\ ~trace[2].new_slide /\ trace[3].new_slide
       /\ trace[1].calls = 1 /\ trace[2].calls = 0 /\ trace[3].calls = 1
       /\ \A i \in 1..3 : trace[i].status = 200
       /\ trace[1].summary = Some(Doc(FrameA.img, "ok"))
       /\ trace[2].summary = trace[1].summary
       /\ trace[2].text_similarity = Some(100) /\ trace[2].clip_cosine = Some(94)
       /\ trace[3].text_similarity = Some(0)
       /\ trace[3].summary = Some(Doc(FrameC.img, "ok"))
       /\ trace[1].history_len = 1 /\ trace[2].history_len = 1 /\ trace[3].history_len = 2

\* C10 witness: the three requests have run in this order without a failure.
C10_Witness ==
    /\ Len(trace) = Len(Script)
    /\ faults = 0
    /\ \A i \in 1..Len(Script) : trace[i].image = Script[i].img
    /\ Len(log) = 2

\* An OCR text with too little signal to trust: at most five characters in
\* at most one word.
ShortOcr(text) == Len(text) <= 5 /\ Len(split(text)) <= 1

\* C11 (as claimed): with a previous state cached, a request whose OCR text is
\* short is decided unchanged whatever its similarity metrics are.
C11_ShortOcrIsUnchanged ==
    \A i \in 1..Len(trace) :
        (/\ trace[i].image # 0
         /\ ~IsNone(trace[i].text_similarity)
         /\ ShortOcr(FrameOf(trace[i].image).text))
        => ~trace[i].new_slide

\* C12 (as claimed): evaluate_change on a text t as both the non-null
\* previous and the current text, the empty text included, returns sequence
\* similarity 1.0, token delta 0.0 and changed = false.
C12_EvaluateChangeReflexive ==
    (/\ probe.fn = "evaluate_change"
     /\ ~IsNone(probe.args.previous)
     /\ Val(probe.args.previous) = probe.args.current)
    => /\ ~probe.out.changed
       /\ probe.out.seq_similarity[1] = probe.out.seq_similarity[2]
       /\ probe.out.token_change[1] = 0

\* detect_and_crop_slide of each frame, computed once.
Detections == [frame \in Frames |-> detect_and_crop_slide(frame)]

\* C13: a detection miss is no error.  detect_and_crop_slide reports
\* detected exactly when it returns a quad; a request whose frame shows no
\* quad works on the full frame, reports slide_detected = false without a
\* bounding box, is decided by the comparison of the frame's text and
\* embedding with the previous ones, and returns 200 as long as no
\* summarizer call and no write has failed.
C13_DetectionMissIsNoError ==
    [][(Finishes /\ Latest(trace').image # 0) =>
         LET frame == FrameOf(Latest(trace').image)
             found == Detections[frame]
             dc == _determine_change(mem, disk, frame.text, frame.clip)
             out == Latest(trace')
         IN  /\ found.detected <=> ~IsNone(found.corners)
             /\ out.slide_detected = found.detected
             /\ ~found.detected =>
                   /\ found.cropped = Whole(frame)
                   /\ IsNone(out.bounding_box)
                   /\ out.new_slide = dc.is_new
                   /\ out.text_similarity = dc.text_similarity
                   /\ ~IsNone(dc.clip_cosine) => out.clip_cosine = dc.clip_cosine
                   /\ faults' = 0 => out.status = 200]_vars

\* C13 witness: frame D, in which no quad is found, was compared with the
\* cached slide and returned with slide_detected = false.
C13_Witness ==
    /\ trace # <<>>
    /\ Latest(trace).image = FrameD.img
    /\ IsNone(find_screen(FrameD, None, <<>>).corners)
    /\ ~Latest(trace).slide_detected
    /\ ~IsNone(Latest(trace).text_similarity)
    /\ Latest(trace).status = 200

\* C14 (as claimed): for four points forming a simple convex quadrilateral,
\* passed in any order, order_points returns a permutation of the four
\* points, and the same one for every order.
C14_OrderPointsCanonical ==
    probe.fn = "order_points" =>
        /\ \E p \in Perm4 : probe.out = Reorder(probe.args.pts, p)
        /\ \A p \in Perm4 : order_points(Reorder(probe.args.pts, p)) = probe.out

\* C15: for a frame of width W >= 1 and height H >= 1, a quad with its
\* corners at pixels of the frame and a pad >= 0, the crop bounds of
\* extract_bbox_with_padding satisfy 0 <= x1 < x2 <= W and 0 <= y1 < y2 <= H.
C15_CropInsideFrame ==
    probe.fn = "extract_bbox_with_padding" =>
        LET x1 == probe.out[1]
            y1 == probe.out[2]
            x2 == probe.out[3]
            y2 == probe.out[4]
        IN  /\ 0 <= x1 /\ x1 < x2 /\ x2 <= probe.args.frame.w
            /\ 0 <= y1 /\ y1 < y2 /\ y2 <= probe.args.frame.h

\* C15 witness: a pad of one pixel that leaves the frame on the left and at
\* the top and stays inside on the right and at the bottom.
C15_Witness ==
    /\ probe.fn = "extract_bbox_with_padding"
    /\ probe.args.pad = 1
    /\ boundingRect(probe.args.corners).x - probe.args.pad < 0
    /\ boundingRect(probe.args.corners).y - probe.args.pad < 0
    /\ probe.out[1] = 0 /\ probe.out[2] = 0
    /\ probe.out[3] < probe.args.frame.w
    /\ probe.out[4] < probe.args.frame.h

\* C16: the first request after a restart that followed a successfully
\* completed request is compared with the text and the embedding of that
\* request's frame, and gets the decision and the metrics it would have got
\* from the module state the request had left.
C16_RestartResumes ==
    [][(/\ Finishes
        /\ ~mem.init
        /\ trace # <<>>
        /\ Latest(trace).status = 200
        /\ Latest(trace').image # 0) =>
         LET last == FrameOf(Latest(trace).image)
             frame == FrameOf(Latest(trace').image)
             warm == [text |-> Some(last.text), clip |-> Some(last.clip), init |-> TRUE]
             dc == _determine_change(warm, disk, frame.text, frame.clip)
         IN  /\ Previous(mem, disk) = [text |-> warm.text, clip |-> warm.clip]
             /\ Latest(trace').new_slide = dc.is_new
             /\ Latest(trace').text_similarity = dc.text_similarity
             /\ Latest(trace').clip_cosine = dc.clip_cosine]_vars

\* C16 witness: frame A was processed, the server restarted, and frame B
\* was then compared with A and decided unchanged.
C16_Witness ==
    /\ Len(trace) = 2
    /\ trace[1].image = FrameA.img /\ trace[1].status = 200
    /\ trace[2].image = FrameB.img /\ trace[2].cold
    /\ trace[2].text_similarity = Some(100) /\ trace[2].clip_cosine = Some(94)
    /\ ~trace[2].new_slide /\ trace[2].status = 200

\* C17 (as claimed): a request decided changed whose save_last_state call
\* fails is not reported as success and leaves the files, the previous
\* features and the log as they were before it.
C17_CommitAllOrNothing ==
    [][(Finishes /\ Latest(trace').new_slide /\ Latest(trace').save_failed) =>
         /\ Latest(trace').status # 200
         /\ disk' = disk
         /\ log' = log
         /\ Previous(mem', disk') = Previous(mem, disk)]_vars

\* C18 (as claimed): for a stored history h and a limit >= 0,
\* load_slide_history returns the last min(limit, len(h)) entries of h in
\* their stored order, and all of h when no limit is given.
C18_LoadReturnsLastEntries ==
    probe.fn = "load_slide_history" =>
        LET h == probe.args.history
            limit == probe.args.limit
            k == IF Val(limit) <= Len(h) THEN Val(limit) ELSE Len(h)
        IN  probe.out = IF IsNone(limit) THEN h ELSE SubSeq(h, Len(h) - k + 1, Len(h))

\* C19: after reset_slide_history, load_slide_history returns the empty list
\* for every limit, whatever the log held; and the accepted change that is
\* recorded in an empty log gets slide_number 1.
C19_ResetStartsOver ==
    [][/\ (log' # log /\ inflight' = inflight) =>
             \A limit \in Limits : load_slide_history(log', limit) = <<>>
       /\ (Finishes /\ log = <<>> /\ log' # <<>>) =>
             /\ Len(log') = 1
             /\ log'[1].slide_number = 1
             /\ Latest(trace').new_slide /\ Latest(trace').calls = 1]_vars

\* C19 witness: the log held one entry, was reset, and the next accepted
\* change (frame C) is its only entry, with slide_number 1.
C19_Witness ==
    /\ Len(trace) = 2
    /\ trace[1].history_len = 1
    /\ trace[2].image = FrameC.img
    /\ trace[2].new_slide /\ trace[2].status = 200
    /\ ~IsNone(trace[2].text_similarity)
    /\ trace[2].history_len = 1
    /\ log = <<[slide_number |-> 1, summary |-> Doc(FrameC.img, "ok"),
                metrics |-> [text_similarity |-> trace[2].text_similarity,
                             clip_cosine |-> trace[2].clip_cosine]]>>

\* The keys order_points sorts by.
SumXY(p) == p[1] + p[2]
XMinusY(p) == p[1] - p[2]

\* C20 (as claimed): order_points puts in the top-left slot a point of least
\* x + y, in the bottom-right slot one of greatest x + y, in the top-right
\* slot one of least x - y and in the bottom-left slot one of greatest x - y.
C20_TopRightIsMinXMinusY ==
    probe.fn = "order_points" =>
        \A i \in 1..4 :
            /\ SumXY(probe.out[1]) <= SumXY(probe.args.pts[i])
            /\ SumXY(probe.out[3]) >= SumXY(probe.args.pts[i])
            /\ XMinusY(probe.out[2]) <= XMinusY(probe.args.pts[i])
            /\ XMinusY(probe.out[4]) >= XMinusY(probe.args.pts[i])

\* C20 (amended): the slots are filled with input points; top-left has the
\* least x + y, bottom-right the greatest x + y, top-right the greatest
\* x - y and bottom-left the least x - y.
C20_TopRightIsMaxXMinusY ==
    probe.fn = "order_points" =>
        /\ \A k \in 1..4 : \E i \in 1..4 : probe.out[k] = probe.args.pts[i]
        /\ \A i \in 1..4 :
              /\ SumXY(probe.out[1]) <= SumXY(probe.args.pts[i])
              /\ SumXY(probe.out[3]) >= SumXY(probe.args.pts[i])
              /\ XMinusY(probe.out[2]) >= XMinusY(probe.args.pts[i])
              /\ XMinusY(probe.out[4]) <= XMinusY(probe.args.pts[i])

\* C20 witness: the corners of an upright rectangle, passed starting at the
\* bottom-left one, come out as top-left, top-right, bottom-right,
\* bottom-left (y grows downwards).
C20_Witness ==
    /\ probe.fn = "order_points"
    /\ probe.args.pts = <<<<0, 2>>, <<0, 0>>, <<1, 0>>, <<1, 2>>>>
    /\ probe.out = <<<<0, 0>>, <<1, 0>>, <<1, 2>>, <<0, 2>>>>

\* The candidates of a find_screen call that have a centroid, the squared
\* distance of candidate i from the centroid of the previous quad, and
\* whether candidate i is a nearest one, a largest one.
WithCentroid(cands) == {i \in 1..Len(cands) : ~IsNone(_get_centroid(cands[i]))}
DistOf(cands, last_corners, i) ==
    LET c == Val(_get_centroid(cands[i]))
        last == Val(_get_centroid(Val(last_corners)))
    IN  (c[1] - last[1]) * (c[1] - last[1]) + (c[2] - last[2]) * (c[2] - last[2])
IsNearest(cands, last_corners, i) ==
    /\ i \in WithCentroid(cands)
    /\ \A j \in WithCentroid(cands) :
          DistOf(cands, last_corners, i) <= DistOf(cands, last_corners, j)
IsLargest(cands, i) ==
    \A j \in 1..Len(cands) : contourArea2(cands[i]) >= contourArea2(cands[j])

\* A find_screen call selects by distance: a previous quad (with a centroid)
\* is supplied and a nearest candidate is within a quarter of the frame
\* width of it.
SelectsByDistance(cands, last_corners, w) ==
    /\ ~IsNone(last_corners)
    /\ ~IsNone(_get_centroid(Val(last_corners)))
    /\ \E i \in 1..Len(cands) :
          /\ IsNearest(cands, last_corners, i)
          /\ 16 * DistOf(cands, last_corners, i) <= w * w

\* C21 (as claimed): find_screen with a non-empty candidate list returns a
\* candidate nearest to the previous quad when one is supplied and that
\* candidate is within frame_width / 4, and a candidate of largest area in
\* every other case.
C21_NearestElseLargest ==
    probe.fn = "find_screen" =>
        LET cands == probe.args.valid_candidates
            last_corners == probe.args.last_corners
        IN  /\ ~probe.out.raised
            /\ \E i \in 1..Len(cands) :
                  /\ probe.out.corners = Some(order_points(cands[i]))
                  /\ IF SelectsByDistance(cands, last_corners, probe.args.frame_width)
                     THEN IsNearest(cands, last_corners, i)
                     ELSE IsLargest(cands, i)

\* C22: among the candidates that tie for the smallest distance, or for the
\* largest area, find_screen selects the one that comes first in the
\* candidate list: its result is that of the first nearest candidate when it
\* selects by distance and of the first largest candidate otherwise.
C22_TiesTakeFirst ==
    (probe.fn = "find_screen" /\ ~probe.out.raised) =>
        LET cands == probe.args.valid_candidates
            last_corners == probe.args.last_corners
            by_distance == SelectsByDistance(cands, last_corners, probe.args.frame_width)
            Fits(i) == IF by_distance THEN IsNearest(cands, last_corners, i)
                       ELSE IsLargest(cands, i)
            first == CHOOSE i \in 1..Len(cands) :
                        Fits(i) /\ \A j \in 1..(i - 1) : ~Fits(j)
        IN  probe.out.corners = Some(order_points(cands[first]))

\* The words of a text, case folded, in the order they occur, and their
\* number of occurrences.
WordsOf(text) == split(lower(text))
WordSet(text) == {WordsOf(text)[i] : i \in 1..Len(WordsOf(text))}
Occurs(w, text) == Cardinality({i \in 1..Len(WordsOf(text)) : WordsOf(text)[i] = w})

\* C23: token_delta_ratio(p, c) is the sum over the words of either text of
\* |count_p - count_c| divided by the sum of max(count_p, count_c) (0 when
\* neither text has a word); it lies in [0, 1], is symmetric, is 0 exactly
\* when the texts have the same multiset of words and 1 exactly when they
\* share no word and are not both without words.
C23_TokenDeltaRatio ==
    probe.fn = "token_delta_ratio" =>
        LET p == probe.args.previous
            c == probe.args.current
            words == WordSet(p) \cup WordSet(c)
            AbsDiff(w) == Abs(Occurs(w, p) - Occurs(w, c))
            MaxCount(w) == Max2(Occurs(w, p), Occurs(w, c))
            diff == SumOver(words, AbsDiff, 0)
            total == SumOver(words, MaxCount, 0)
            q == probe.out
        IN  /\ q[2] > 0
            /\ q[1] * (IF total = 0 THEN 1 ELSE total) = diff * q[2]
            /\ 0 <= q[1] /\ q[1] <= q[2]
            /\ token_delta_ratio(c, p) = q
            /\ q[1] = 0 <=> \A w \in words : Occurs(w, p) = Occurs(w, c)
            /\ q[1] = q[2] <=> (WordSet(p) \cap WordSet(c) = {} /\ words # {})

\* C23 witness: "ab ab c" against "ab d" differs in three of four words.
C23_Witness ==
    /\ probe.fn = "token_delta_ratio"
    /\ probe.args.previous = <<1, 2, SPACE, 1, 2, SPACE, 3>>
    /\ probe.args.current = <<1, 2, SPACE, 4>>
    /\ probe.out = <<3, 4>>

\* C24 (as claimed): a request that returns has taken the OCR text, the
\* embedding and the image for the summarizer (which is also the image it
\* saves) from the padded crop when a quad is detected in its frame, and
\* from the full frame only when none is detected.
C24_FeaturesFromCrop ==
    [][(Finishes /\ Latest(trace').status = 200) =>
         LET frame == FrameOf(Latest(trace').image)
             found == detect_and_crop_slide(frame)
             region == IF found.detected THEN found.cropped ELSE Whole(frame)
         IN  last_save' = SaveCall(region, Val(last_save').summary,
                                   extract_text(frame, region),
                                   embed_image(frame, region))]_vars

\* C25: for a non-empty previous text and any current text, evaluate_change
\* returns the sequence similarity and the token delta of the two texts and
\* changed = true exactly when the similarity is below 0.85 or the delta is
\* above 0.20 (false exactly when the similarity is at least 0.85 and the
\* delta at most 0.20); is_slide_changed returns the same boolean.
C25_ChangedIffEitherCriterion ==
    (/\ probe.fn \in {"evaluate_change", "is_slide_changed"}
     /\ ~IsNone(probe.args.previous)
     /\ Val(probe.args.previous) # <<>>)
    => LET seq == sequence_ratio(Val(probe.args.previous), probe.args.current)
           tok == token_delta_ratio(Val(probe.args.previous), probe.args.current)
           below == 100 * seq[1] < 85 * seq[2]
           above == 100 * tok[1] > 20 * tok[2]
       IN  /\ probe.out.changed <=> (below \/ above)
           /\ ~probe.out.changed <=> (~below /\ ~above)
           /\ probe.fn = "evaluate_change" =>
                 /\ probe.out.seq_similarity = seq
                 /\ probe.out.token_change = tok

\* C25 witness: is_slide_changed("AB c", "ab c") is true by the sequence
\* similarity alone (0.5, token delta 0).
C25_Witness ==
    /\ probe.fn = "is_slide_changed"
    /\ probe.args.previous = Some(<<11, 12, SPACE, 3>>)
    /\ probe.args.current = TextABC
    /\ probe.out.changed

\* C26 (as claimed): after a request that was decided changed and returned
\* successfully, the summary load_last_state reads back is the document the
\* summarizer returned for the frame of that request (none when it returned
\* none), never the summary of an earlier slide next to the text and the
\* embedding of the new one.
C26_PersistedSummaryIsCurrent ==
    [][(/\ Finishes
        /\ Latest(trace').new_slide
        /\ Latest(trace').status = 200)
       => LET state == load_last_state(disk')
              frame == FrameOf(Latest(trace').image)
          IN  /\ state.text = Some(_process_frame(frame).ocr_text)
              /\ state.clip_vector = Some(_process_frame(frame).clip_vector)
              /\ state.summary = Latest(trace').summary
              /\ ~IsNone(state.summary) => Val(state.summary).of = frame.img]_vars

\* Frame g is within the thresholds of frame f: the features process_slide
\* extracts from them are not both below their threshold.
WithinTable ==
    [f \in Frames, g \in Frames |->
        ~(/\ token_sort_ratio(_process_frame(g).ocr_text, _process_frame(f).ocr_text)
               < TEXT_THRESHOLD
          /\ cosine_np(_process_frame(g).clip_vector, _process_frame(f).clip_vector)
               < CLIP_THRESHOLD)]
WithinThresholds(f, g) == WithinTable[f, g]

\* C27: the decision on a frame depends only on the frame processed
\* successfully just before it, not on the last summarized one: a request
\* that follows a successful request is decided changed exactly when its
\* frame is beyond the thresholds of that request's frame, so a frame within
\* the thresholds of its predecessor is never decided changed, however far
\* it is from the last summarized frame.
C27_ComparedWithPredecessor ==
    [][(/\ Finishes
        /\ trace # <<>>
        /\ Latest(trace).status = 200
        /\ Latest(trace').image # 0)
       => (Latest(trace').new_slide <=>
              ~WithinThresholds(FrameOf(Latest(trace).image),
                                FrameOf(Latest(trace').image)))]_vars

\* C27 witness: frame C, within the thresholds of its predecessor D, is
\* decided unchanged although the last summarized frame is B, from which it
\* differs beyond both thresholds.
C27_Witness ==
    /\ Len(trace) = 2
    /\ trace[1].image = 4 /\ trace[1].status = 200 /\ ~trace[1].new_slide
    /\ trace[2].image = 3 /\ trace[2].status = 200 /\ ~trace[2].new_slide
    /\ log # <<>>
    /\ log[Len(log)].summary.of = 2
    /\ ~WithinThresholds(FrameB, FrameC)
    /\ WithinThresholds(FrameB, FrameD)
    /\ WithinThresholds(FrameD, FrameC)

\* C29 (as claimed): for every limit MAX_CONVERSATION_MEMORY >= 0 and any
\* number of _record_conversation calls, the memory holds at most that many
\* turns: the most recent ones, in the order they were recorded.
C29_MemoryHoldsLatestTurns ==
    probe.fn = "_record_conversation"
    => LET n == probe.args.calls
           limit == probe.args.limit
           k == IF n <= limit THEN n ELSE limit
       IN  /\ Len(probe.out) <= limit
           /\ probe.out = [i \in 1..k |->
                             [question |-> <<n - k + i>>,
                              answer |-> <<10 + n - k + i>>,
                              slide_number |-> n - k + i]]

\* With a positive limit the memory is as claimed.
C29_PositiveLimit ==
    (probe.fn = "_record_conversation" /\ probe.args.limit > 0)
    => LET n == probe.args.calls
           limit == probe.args.limit
           k == IF n <= limit THEN n ELSE limit
       IN  /\ Len(probe.out) <= limit
           /\ probe.out = [i \in 1..k |->
                             [question |-> <<n - k + i>>,
                              answer |-> <<10 + n - k + i>>,
                              slide_number |-> n - k + i]]

\* A step of /compare_slides: a comparison is received, or the event loop
\* resumes one.  A step of /ask: the request is received and answered at
\* once, and probe holds its response.
CompareStep == comparing' # comparing
AskStep ==
    /\ probe'.fn = "ask_question"
    /\ arrived' # arrived
    /\ inflight' = inflight
    /\ comparing' = comparing

\* C28: compare_slides is stateless.  However its arrival, its two reads
\* and its return interleave with the process_slide requests and the
\* questions, it leaves the files, the cached previous text and
\* embedding, the history log and the conversation memory as they were, and
\* it never alters a later decision: a request that follows a successful
\* request is still decided against that request's frame, whatever was
\* compared in between.
C28_CompareSlidesIsStateless ==
    [][/\ CompareStep => UNCHANGED <<mem, disk, log, _conversation_memory, trace, last_save>>
       /\ (/\ Finishes
           /\ trace # <<>>
           /\ Latest(trace).status = 200
           /\ Latest(trace').image # 0)
          => (Latest(trace').new_slide <=>
                 ~WithinThresholds(FrameOf(Latest(trace).image),
                                   FrameOf(Latest(trace').image)))]_vars

\* C28 witness: the comparison of frames A and C has returned (new_slide =
\* true) while a process_slide request is suspended at its read, after a
\* processed frame has been cached and logged.
C28_Witness ==
    /\ probe.fn = "compare_slides"
    /\ probe.out.status = 200
    /\ probe.out.new_slide
    /\ inflight # EmptyBag
    /\ ~IsNone(mem.text)
    /\ log # <<>>

====
